---- MODULE Spec2Model ----
(***************************************************************************)
(* The agent loop of guac-ai-mole (internal/analyzer/analyzer.go) and the  *)
(* dispatcher it calls (internal/guac/client.go, internal/guac/tools/      *)
(* invoke.go), as a state machine of one Analyze run.  The LLM provider    *)
(* and the GUAC GraphQL backend are external: their answers are chosen     *)
(* nondeterministically from small sets.                                   *)
(***************************************************************************)
EXTENDS Integers, Sequences, FiniteSets, TLC

(***************************************************************************)
(* Program constants.                                                      *)
(***************************************************************************)
MaxSteps == 5

\* mutant: one attempt more
maxGUACRetriesThree == 2 + 1

maxGUACRetries == 2

(***************************************************************************)
(* Bounds of the model.                                                    *)
(***************************************************************************)
\* the backend answers a successful operation with one of NumResults results
NumResults == 2

\* an LLM answer reports a total token count in 1..MaxUsage
MaxUsage == 2

(***************************************************************************)
(* JSON texts.  A text is a sequence of lexical tokens; " " is a run of    *)
(* insignificant whitespace between two tokens.                            *)
(***************************************************************************)
WS == " "

StringTokens == {"\"a\"", "\"b\"", "\"id\"", "\"1\""}

StringOf(tok) ==
    CASE tok = "\"a\"" -> "a"
      [] tok = "\"b\"" -> "b"
      [] tok = "\"id\"" -> "id"
      [] tok = "\"1\"" -> "1"

NumberTokens == {"1", "2"}

NumberOf(tok) ==
    CASE tok = "1" -> 1
      [] tok = "2" -> 2

\* the object keys of the texts above, in the byte order Go sorts them in
KeyOrder == <<"1", "a", "b", "id">>

(***************************************************************************)
(* The values json.Unmarshal stores in an interface{}: nil, string,        *)
(* float64, bool, and map[string]interface{} (held as the sequence of its  *)
(* entries in key order, a map having no order of its own).                *)
(***************************************************************************)
NilVal == [t |-> "nil", s |-> "", n |-> 0, m |-> <<>>]

StrVal(s) == [t |-> "str", s |-> s, n |-> 0, m |-> <<>>]

NumVal(n) == [t |-> "num", s |-> "", n |-> n, m |-> <<>>]

BoolVal(b) == [t |-> "bool", s |-> IF b THEN "true" ELSE "false", n |-> 0, m |-> <<>>]

MapVal(m) == [t |-> "map", s |-> "", n |-> 0, m |-> m]

StripWS(text) == SelectSeq(text, LAMBDA tok : tok # WS)

IsScalarToken(tok) ==
    tok \in StringTokens \cup NumberTokens \cup {"null", "true", "false"}

ScalarOf(tok) ==
    CASE tok \in StringTokens -> StrVal(StringOf(tok))
      [] tok \in NumberTokens -> NumVal(NumberOf(tok))
      [] tok = "null" -> NilVal
      [] tok = "true" -> BoolVal(TRUE)
      [] tok = "false" -> BoolVal(FALSE)

\* inner is what stands between "{" and "}": key : value (, key : value)*
MembersOK(inner) ==
    /\ Len(inner) % 4 = 3
    /\ \A i \in 1..Len(inner) :
          CASE i % 4 = 1 -> inner[i] \in StringTokens
            [] i % 4 = 2 -> inner[i] = ":"
            [] i % 4 = 3 -> IsScalarToken(inner[i])
            [] i % 4 = 0 -> inner[i] = ","

\* the members of an object text in text order
MembersOf(inner) ==
    [j \in 1..((Len(inner) + 1) \div 4) |->
        [k |-> StringOf(inner[4 * j - 3]), v |-> ScalarOf(inner[4 * j - 1])]]

\* the map a member list decodes to: a later duplicate key overwrites
MapOf(members) ==
    LET keys == {members[j].k : j \in 1..Len(members)}
        last(k) == CHOOSE j \in 1..Len(members) :
                      /\ members[j].k = k
                      /\ \A j2 \in 1..Len(members) : members[j2].k = k => j2 <= j
        sorted == SelectSeq(KeyOrder, LAMBDA k : k \in keys)
    IN  [i \in 1..Len(sorted) |-> [k |-> sorted[i], v |-> members[last(sorted[i])].v]]

\* json.Unmarshal(text, &v) with v an interface{}: on a syntax error v keeps nil
jsonUnmarshal(text) ==
    LET s == StripWS(text)
    IN  IF Len(s) = 1 /\ IsScalarToken(s[1])
        THEN [ok |-> TRUE, val |-> ScalarOf(s[1])]
        ELSE IF Len(s) = 2 /\ s[1] = "{" /\ s[2] = "}"
        THEN [ok |-> TRUE, val |-> MapVal(<<>>)]
        ELSE IF /\ Len(s) > 2 /\ s[1] = "{" /\ s[Len(s)] = "}"
                /\ MembersOK(SubSeq(s, 2, Len(s) - 1))
        THEN [ok |-> TRUE, val |-> MapVal(MapOf(MembersOf(SubSeq(s, 2, Len(s) - 1))))]
        ELSE [ok |-> FALSE, val |-> NilVal]

\* fmt.Sprintf("%v", v) of a scalar
fmtScalar(v) ==
    CASE v.t = "nil" -> "<nil>"
      [] v.t = "str" -> v.s
      [] v.t = "num" -> ToString(v.n)
      [] v.t = "bool" -> v.s

RECURSIVE fmtEntries(_)
fmtEntries(m) ==
    IF m = <<>> THEN ""
    ELSE m[1].k \o ":" \o fmtScalar(m[1].v)
         \o (IF Len(m) > 1 THEN " " \o fmtEntries(Tail(m)) ELSE "")

\* fmt.Sprintf("%v", v): a map prints as map[k:v k:v] with its keys sorted
fmtV(v) == IF v.t = "map" THEN "map[" \o fmtEntries(v.m) \o "]" ELSE fmtScalar(v)

jsonEqual(a, b) == fmtV(jsonUnmarshal(a).val) = fmtV(jsonUnmarshal(b).val)

(***************************************************************************)
(* The argument texts an LLM answer may carry.                             *)
(***************************************************************************)
ArgsAB == <<"{", "\"a\"", ":", "1", ",", "\"b\"", ":", "2", "}">>

\* the same object with the keys swapped and whitespace added
ArgsBA == <<"{", " ", "\"b\"", ":", " ", "2", ",", " ", "\"a\"", ":", "1", " ", "}">>

\* "a" holds the string "1" instead of the number 1
ArgsAStr == <<"{", "\"a\"", ":", "\"1\"", ",", "\"b\"", ":", "2", "}">>

ArgsNull == <<"null">>

\* not JSON
ArgsBad == <<"{", "bad">>

\* not JSON either
ArgsNope == <<"nope">>

\* valid JSON that does not fit a filter type: id is a string field
ArgsIdNum == <<"{", "\"id\"", ":", "1", "}">>

ArgsStr1 == <<"\"1\"">>

ArgsNum1 == <<"1">>

AllArgTexts ==
    {ArgsAB, ArgsBA, ArgsAStr, ArgsNull, ArgsBad, ArgsNope, ArgsIdNum, ArgsStr1, ArgsNum1}

(***************************************************************************)
(* Texts of unbounded size (LLM content, marshalled tool results) are held *)
(* as what they say (body), their length in bytes (len) and whether they   *)
(* were cut to a prefix followed by "\n[truncated]" (cut).                 *)
(***************************************************************************)
Text(body, len) == [body |-> body, len |-> len, cut |-> FALSE]

\* mutant: nothing is cut
truncateStringKeepAll(s, maxLen) == s

truncateString(s, maxLen) ==
    IF s.len > maxLen
    THEN [body |-> s.body, len |-> maxLen + Len("\n[truncated]"), cut |-> TRUE]
    ELSE s

(***************************************************************************)
(* The operation catalog and the dispatcher.                               *)
(***************************************************************************)
\* the operations of the catalog, in catalog order: the name the runtime
\* gives the function, split at its dots, and the number of its parameters
\* (ctx, client, filter)
allowedOperations ==
    <<[name |-> <<"github", "com/guacsec/guac/pkg/assembler/clients/generated",
                  "Dependencies">>, numIn |-> 3],
      [name |-> <<"github", "com/guacsec/guac/pkg/assembler/clients/generated",
                  "Vulnerabilities">>, numIn |-> 3],
      [name |-> <<"github", "com/guacsec/guac/pkg/assembler/clients/generated",
                  "Packages">>, numIn |-> 3]>>

\* mutant: what stands before the last dot is returned
GetRuntimeFuncNamePackage(fn) ==
    IF Len(fn.name) = 1 THEN fn.name[1] ELSE fn.name[Len(fn.name) - 1]

\* what follows the last dot of the name; the whole name when it has no dot
GetRuntimeFuncName(fn) == fn.name[Len(fn.name)]

\* one descriptor, held as its name, for each operation that has the
\* parameters of an operation; typeToJSONSchema returns no error
RECURSIVE generateDefinitions(_)
generateDefinitions(ops) ==
    IF ops = <<>> THEN <<>>
    ELSE IF Head(ops).numIn < 3 THEN generateDefinitions(Tail(ops))
    ELSE <<GetRuntimeFuncName(Head(ops))>> \o generateDefinitions(Tail(ops))

generateDefinitionsFromGUAC == generateDefinitions(allowedOperations)

\* tools.Definitions as init() leaves it
Definitions == generateDefinitionsFromGUAC \o <<"KnownQuery">>

\* the tool calls an LLM answer may carry
LLMCalls ==
    {[Name |-> "Packages", Arguments |-> ArgsAB],
     \* the same call written differently
     [Name |-> "Packages", Arguments |-> ArgsBA],
     \* another operation, the same arguments
     [Name |-> "Dependencies", Arguments |-> ArgsAB],
     \* a tool name the LLM made up
     [Name |-> "nonexistent", Arguments |-> ArgsAB],
     \* arguments that do not fit the filter type
     [Name |-> "Packages", Arguments |-> ArgsIdNum],
     \* arguments that are not JSON
     [Name |-> "Dependencies", Arguments |-> ArgsBad]}

findOperationByName(fnName) ==
    \E i \in 1..Len(allowedOperations) :
       GetRuntimeFuncName(allowedOperations[i]) = fnName

\* mutant: every argument text is taken for a filter
unmarshalFilterFromJSONAnyText(data) == TRUE

\* json.Unmarshal(data, &filter) with filter a struct of the generated
\* client (IsDependencySpec, VulnerabilitySpec, PkgSpec: id is a *string):
\* a syntax error, a top-level value that is neither an object nor null,
\* and a known field of the wrong type are errors; unknown keys are skipped
unmarshalFilterFromJSON(data) ==
    LET s == StripWS(data)
        r == jsonUnmarshal(data)
        members == IF r.val.t = "map" /\ Len(s) > 2
                   THEN MembersOf(SubSeq(s, 2, Len(s) - 1)) ELSE <<>>
    IN  /\ r.ok
        /\ r.val.t \in {"map", "nil"}
        /\ \A j \in 1..Len(members) :
              members[j].k = "id" => members[j].v.t \in {"str", "nil"}

\* what callOperation may return: an error, or a response object;
\* response 0 is one json.Marshal cannot encode
BackendOutcomes == [err : BOOLEAN, result : 0..NumResults]

\* callOperation(ctx, guacClient, fn, filter): the generated operation sends
\* its request with ctx, and the HTTP client answers a request whose context
\* is already done with the context's error
callOperation(ctxDone) == {out \in BackendOutcomes : ctxDone => out.err}

\* json.Marshal(result); response r marshals to a text of 4999 + r bytes,
\* so that results at and above the 5000 bytes executeFunction keeps occur
jsonMarshal(result) ==
    [ok |-> result # 0,
     text |-> Text("{\"result\":" \o ToString(result) \o "}", 4999 + result)]

\* mutant: a result that cannot be marshalled yields an empty text
executeFunctionOutputOrEmpty(result) ==
    LET m == jsonMarshal(result)
    IN  IF ~m.ok THEN Text("", 0)
        ELSE IF m.text.len > 5000
        THEN [body |-> m.text.body, len |-> 5000 + Len("\n[truncated]"), cut |-> TRUE]
        ELSE m.text

\* mutant: a text of exactly 5000 bytes is cut as well
executeFunctionOutputInclusive(result) ==
    LET m == jsonMarshal(result)
    IN  IF ~m.ok THEN Text("error: failed to parse tool output", 34)
        ELSE IF m.text.len >= 5000
        THEN [body |-> m.text.body, len |-> 5000 + Len("\n[truncated]"), cut |-> TRUE]
        ELSE m.text

\* the text executeFunction returns for a response the backend gave
executeFunctionOutput(result) ==
    LET m == jsonMarshal(result)
    IN  IF ~m.ok THEN Text("error: failed to parse tool output", 34)
        ELSE IF m.text.len > 5000
        THEN [body |-> m.text.body, len |-> 5000 + Len("\n[truncated]"), cut |-> TRUE]
        ELSE m.text

(***************************************************************************)
(* Errors are chains of wrapped errors, outermost first; nil is <<>>.      *)
(***************************************************************************)
NoError == <<>>

errGuacUnreachable == "guac unreachable after retry"

errorsIs(e, target) == \E i \in 1..Len(e) : e[i] = target

\* mutant: the attempt counter does not advance
nextAttemptSame(i) == i

\* i++ of the loop of callGUACWithRetry
nextAttempt(i) == i + 1

\* mutant: lastErr is returned as it is
callGUACWithRetryErrorUnwrapped == <<"backend error">>

\* the error callGUACWithRetry returns when the attempts are used up
callGUACWithRetryError == <<errGuacUnreachable>>

(***************************************************************************)
(* The LLM provider.                                                       *)
(***************************************************************************)
NoCall == [Name |-> "", Arguments |-> <<>>]

Contents == {Text("hello", 5), Text("long answer", 5001)}

\* an answer is an error, a tool call (whatever content comes with it), or
\* content alone; the token count of a tool-call answer is one no final
\* answer reports
ErrorAnswer ==
    [err |-> TRUE, FunctionCall |-> NoCall, Content |-> Text("", 0), TotalTokens |-> 0]

ToolCallAnswers ==
    [err : {FALSE}, FunctionCall : LLMCalls, Content : {Text("calling a tool", 14)},
     TotalTokens : {MaxUsage + 1}]

FinalAnswers ==
    [err : {FALSE}, FunctionCall : {NoCall}, Content : Contents,
     TotalTokens : 1..MaxUsage]

LLMAnswers == {ErrorAnswer} \cup ToolCallAnswers \cup FinalAnswers

NoAnswer ==
    [err |-> FALSE, FunctionCall |-> NoCall, Content |-> Text("", 0), TotalTokens |-> 0]

\* mutant: an answer with content is taken for a final response
isFunctionCallWithoutContent(ans) == ans.FunctionCall # NoCall /\ ans.Content.len = 0

\* llmResp.FunctionCall != nil in getNextAgentAction
isFunctionCall(ans) == ans.FunctionCall # NoCall

Queries == {"hi"}

\* mutant: every recorded step gets a bullet
buildHistoryReminderOfAll(data) ==
    [sentinel |-> Len(data) = 0,
     bullets |-> [i \in 1..Len(data) |->
                     [Function |-> data[i].FunctionName,
                      Arguments |-> data[i].Arguments]]]

\* the reminder of getNextAgentAction: the sentinel text when nothing was
\* recorded, else the heading and one bullet for each step whose key
\* (name followed by the argument text) was not seen before
buildHistoryReminder(data) ==
    LET key(sd) == <<sd.FunctionName>> \o sd.Arguments
        RECURSIVE loop(_, _, _)
        loop(i, seen, reminder) ==
            IF i > Len(data) THEN reminder
            ELSE IF key(data[i]) \in seen THEN loop(i + 1, seen, reminder)
            ELSE loop(i + 1, seen \cup {key(data[i])},
                      Append(reminder, [Function |-> data[i].FunctionName,
                                        Arguments |-> data[i].Arguments]))
    IN  IF Len(data) = 0
        THEN [sentinel |-> TRUE, bullets |-> <<>>]
        ELSE [sentinel |-> FALSE, bullets |-> loop(1, {}, <<>>)]

\* mutant: the user message is left empty
DecidingRequestWithoutQuery(st, query, data) ==
    [kind |-> "decide", step |-> st + 1, maxSteps |-> MaxSteps,
     user |-> "", tools |-> TRUE, historyReminder |-> buildHistoryReminder(data)]

\* the three requests Analyze sends to the provider
DecidingRequest(st, query, data) ==
    [kind |-> "decide", step |-> st + 1, maxSteps |-> MaxSteps,
     user |-> query, tools |-> TRUE, historyReminder |-> buildHistoryReminder(data)]

\* mutant: the tool catalog stays attached
FinalSummaryRequestWithTools ==
    [kind |-> "summary", step |-> 0, maxSteps |-> MaxSteps,
     user |-> "", tools |-> TRUE]

FinalSummaryRequest ==
    [kind |-> "summary", step |-> 0, maxSteps |-> MaxSteps,
     user |-> "", tools |-> FALSE]

\* mutant: the tool catalog stays attached
GUACFailureRequestWithTools ==
    [kind |-> "explain", step |-> 0, maxSteps |-> MaxSteps,
     user |-> "", tools |-> TRUE]

GUACFailureRequest ==
    [kind |-> "explain", step |-> 0, maxSteps |-> MaxSteps,
     user |-> "", tools |-> FALSE]

(***************************************************************************)
(* StepData and the response.                                              *)
(***************************************************************************)
FailedData == Text("Failed to reach GUAC after multiple attempts.", 45)

ReturnedFindings(step, fn, data) ==
    [kind |-> "returned", step |-> step, fn |-> fn, from |-> 0, data |-> data]

ReusedFindings(step, fn, from) ==
    [kind |-> "reused", step |-> step, fn |-> fn, from |-> from, data |-> Text("", 0)]

UnreachableFindings ==
    [kind |-> "GUAC unreachable after multiple attempts.", step |-> 0, fn |-> "",
     from |-> 0, data |-> Text("", 0)]

\* mutant: the steps are numbered from 0
StepDataFromZero(n, fn, args, data, findings) ==
    [StepNumber |-> n - 1, FunctionName |-> fn, Arguments |-> args,
     Data |-> data, Findings |-> findings]

StepData(n, fn, args, data, findings) ==
    [StepNumber |-> n, FunctionName |-> fn, Arguments |-> args,
     Data |-> data, Findings |-> findings]

\* mutant: the calls are listed latest first
getFunctionCallsReversed(data) ==
    [i \in 1..Len(data) |->
        [function |-> data[Len(data) + 1 - i].FunctionName,
         arguments |-> data[Len(data) + 1 - i].Arguments]]

getFunctionCalls(data) ==
    [i \in 1..Len(data) |->
        [function |-> data[i].FunctionName, arguments |-> data[i].Arguments]]

NoResponse == [present |-> FALSE]

\* mutant: the step in progress is counted too
AnalysisResponseNextStep(result, data, tokens, st) ==
    [present |-> TRUE, Result |-> result, Queries |-> getFunctionCalls(data),
     GuacData |-> data, TokensUsed |-> tokens, Steps |-> st + 1]

AnalysisResponse(result, data, tokens, st) ==
    [present |-> TRUE, Result |-> result, Queries |-> getFunctionCalls(data),
     GuacData |-> data, TokensUsed |-> tokens, Steps |-> st]

\* json.NewEncoder(w).Encode(response): a json.RawMessage that is not valid
\* JSON makes the encoder fail
encodeResponseOK(resp) ==
    \A i \in 1..Len(resp.GuacData) : jsonUnmarshal(resp.GuacData[i].Arguments).ok

\* the status handleAnalyze answers with once Analyze has returned
handleAnalyzeStatus(resp, e) ==
    IF e # NoError THEN 500
    ELSE IF ~encodeResponseOK(resp) THEN 500
    ELSE 200

\* mutant: the last matching step is taken
firstRepeatLatest(data, fn, args) ==
    LET hits == {i \in 1..Len(data) :
                    data[i].FunctionName = fn /\ jsonEqual(data[i].Arguments, args)}
    IN  IF hits = {} THEN 0 ELSE CHOOSE i \in hits : \A j \in hits : i >= j

\* the index of the first recorded step the loop of handleFunctionCall
\* takes for a repeat of (fn, args); 0 when there is none
firstRepeat(data, fn, args) ==
    LET hits == {i \in 1..Len(data) :
                    data[i].FunctionName = fn /\ jsonEqual(data[i].Arguments, args)}
    IN  IF hits = {} THEN 0 ELSE CHOOSE i \in hits : \A j \in hits : i <= j

(***************************************************************************)
(* The state of one Analyze run.                                           *)
(*   pc            where Analyze stands: "Deciding" (head of the loop),    *)
(*                 "Executing" (entry of handleFunctionCall),              *)
(*                 "CallingGUAC" (head of the loop of callGUACWithRetry),  *)
(*                 "Explaining" (entry of generateGUACFailureExplanation), *)
(*                 "Done" (returned)                                       *)
(*   steps, gatheredData, currentQuery, originalQuery   the AgentState     *)
(*   action        the AgentAction being executed                          *)
(*   attempt       i of callGUACWithRetry                                  *)
(*   lastErr       lastErr of callGUACWithRetry                            *)
(*   response, err what Analyze returned                                   *)
(*   llmLog        the requests sent to the LLM provider, in order         *)
(*   guacCalls     number of CallGUACOperation calls (dispatcher)          *)
(*   backendCalls  number of operations invoked on the backend             *)
(*   stepGuacCalls dispatcher calls made for the action being executed     *)
(*   lastAnswer    what the LLM provider returned to the last request      *)
(*   probe         input and output of a function applied on its own       *)
(*   cancelled     the Done channel of the request's context is closed     *)
(*   current       the request whose goroutine the variables above belong  *)
(*                 to                                                      *)
(*   parked        the same variables of the goroutines of the other       *)
(*                 requests in flight, by request                          *)
(*   registry      tools.Definitions, the names of the tool descriptors    *)
(***************************************************************************)
VARIABLES pc, steps, gatheredData, currentQuery, originalQuery, action,
          attempt, lastErr, response, err, llmLog, guacCalls, backendCalls,
          stepGuacCalls, lastAnswer, probe, cancelled, current, parked,
          registry

vars == <<pc, steps, gatheredData, currentQuery, originalQuery, action,
          attempt, lastErr, response, err, llmLog, guacCalls, backendCalls,
          stepGuacCalls, lastAnswer, probe, cancelled, current, parked,
          registry>>

\* what the goroutines of all requests share
shared == <<current, parked, registry>>

agentState == <<steps, gatheredData, currentQuery, originalQuery>>

NoAction == [Action |-> "", Function |-> "", Arguments |-> <<>>]

NoProbe == [op |-> "none"]

\* mutant: the loop runs once more
loopConditionInclusive(st) == st <= MaxSteps

\* the condition of the loop of Analyze
loopCondition(st) == st < MaxSteps

\* the state Analyze builds before its loop
InitAnalyze ==
    /\ pc = "Deciding"
    /\ steps = 0
    /\ gatheredData = <<>>
    /\ \E q \in Queries : currentQuery = q /\ originalQuery = q
    /\ action = NoAction
    /\ attempt = 0
    /\ lastErr = ""
    /\ response = NoResponse
    /\ err = NoError
    /\ llmLog = <<>>
    /\ guacCalls = 0
    /\ backendCalls = 0
    /\ stepGuacCalls = 0
    /\ lastAnswer = NoAnswer
    /\ cancelled = FALSE

\* the process after start-up, serving one request
InitServer ==
    /\ current = 1
    /\ parked = <<>>
    /\ registry = Definitions

Init == InitAnalyze /\ InitServer /\ probe = NoProbe

\* mutant: the error is dropped and the loop goes on
ReturnErrorAndContinue(e) ==
    /\ pc' = pc
    /\ err' = NoError
    /\ UNCHANGED <<agentState, action, attempt, lastErr, response,
                   guacCalls, backendCalls, stepGuacCalls, probe,
                   cancelled, shared>>

\* Analyze returns (nil, e)
ReturnError(e) ==
    /\ pc' = "Done"
    /\ err' = e
    /\ UNCHANGED <<agentState, action, attempt, lastErr, response,
                   guacCalls, backendCalls, stepGuacCalls, probe,
                   cancelled, shared>>

\* Analyze returns (response, nil)
ReturnResponse(content, tokens) ==
    /\ pc' = "Done"
    /\ response' = AnalysisResponse(truncateString(content, 5000), gatheredData,
                                    tokens, steps)
    /\ UNCHANGED <<agentState, action, attempt, lastErr, err,
                   guacCalls, backendCalls, stepGuacCalls, probe,
                   cancelled, shared>>

\* one iteration of the loop of Analyze up to the switch: getNextAgentAction
\* and, for a final response, handleFinalResponse
GetNextAgentActionOn(answers) ==
    /\ pc = "Deciding"
    /\ loopCondition(steps)
    /\ llmLog' = Append(llmLog, DecidingRequest(steps, currentQuery, gatheredData))
    /\ \E ans \in answers :
          /\ lastAnswer' = ans
          /\ IF ans.err
             THEN ReturnError(<<"LLM analysis failed", "provider error">>)
             ELSE IF isFunctionCall(ans)
             THEN /\ pc' = "Executing"
                  /\ action' = [Action |-> "function_call",
                                Function |-> ans.FunctionCall.Name,
                                Arguments |-> ans.FunctionCall.Arguments]
                  /\ UNCHANGED <<agentState, attempt, lastErr, response, err,
                                 guacCalls, backendCalls, stepGuacCalls, probe,
                                 cancelled, shared>>
             ELSE ReturnResponse(ans.Content, ans.TotalTokens)

GetNextAgentAction == GetNextAgentActionOn(LLMAnswers)

\* mutant: the data of the first recorded step is taken
ReusedStepFirstData(data, st, act, from) ==
    StepData(st + 1, act.Function, act.Arguments, data[1].Data,
             ReusedFindings(st + 1, act.Function, data[from].StepNumber))

\* the step handleFunctionCall records for a repeat of step from
ReusedStep(data, st, act, from) ==
    StepData(st + 1, act.Function, act.Arguments, data[from].Data,
             ReusedFindings(st + 1, act.Function, data[from].StepNumber))

\* mutant: a repeated call is recorded without being counted
HandleFunctionCallUncounted ==
    /\ pc = "Executing"
    /\ LET from == firstRepeat(gatheredData, action.Function, action.Arguments)
       IN  IF from # 0
           THEN /\ gatheredData' = Append(gatheredData,
                                          ReusedStep(gatheredData, steps, action, from))
                /\ steps' = steps
                /\ pc' = "Deciding"
                /\ UNCHANGED <<attempt, lastErr, stepGuacCalls>>
           ELSE /\ pc' = "CallingGUAC"
                /\ attempt' = 0
                /\ lastErr' = ""
                /\ stepGuacCalls' = 0
                /\ UNCHANGED <<steps, gatheredData>>
    /\ UNCHANGED <<currentQuery, originalQuery, action, response, err, llmLog,
                   guacCalls, backendCalls, lastAnswer, probe, cancelled, shared>>

\* handleFunctionCall up to the call of executeFunction
HandleFunctionCall ==
    /\ pc = "Executing"
    /\ LET from == firstRepeat(gatheredData, action.Function, action.Arguments)
       IN  IF from # 0
           THEN /\ gatheredData' = Append(gatheredData,
                                          ReusedStep(gatheredData, steps, action, from))
                /\ steps' = steps + 1
                /\ pc' = "Deciding"
                /\ UNCHANGED <<attempt, lastErr, stepGuacCalls>>
           ELSE /\ pc' = "CallingGUAC"
                /\ attempt' = 0
                /\ lastErr' = ""
                /\ stepGuacCalls' = 0
                /\ UNCHANGED <<steps, gatheredData>>
    /\ UNCHANGED <<currentQuery, originalQuery, action, response, err, llmLog,
                   guacCalls, backendCalls, lastAnswer, probe,
                   cancelled, shared>>

\* one attempt of callGUACWithRetry: CallGUACOperation, InvokeGUACOperation
\* and, when it succeeds, the rest of executeFunction and handleFunctionCall
CallGUACOperationOn(outcomes) ==
    /\ pc = "CallingGUAC"
    /\ attempt < maxGUACRetries
    /\ guacCalls' = guacCalls + 1
    /\ stepGuacCalls' = stepGuacCalls + 1
    /\ IF ~findOperationByName(action.Function)
       THEN /\ lastErr' = "operation not found"
            /\ attempt' = nextAttempt(attempt)
            /\ UNCHANGED <<pc, steps, gatheredData, backendCalls>>
       ELSE IF ~unmarshalFilterFromJSON(action.Arguments)
       THEN /\ lastErr' = "failed to unmarshal JSON into filter type"
            /\ attempt' = nextAttempt(attempt)
            /\ UNCHANGED <<pc, steps, gatheredData, backendCalls>>
       ELSE /\ backendCalls' = backendCalls + 1
            /\ \E out \in callOperation(cancelled) \cap outcomes :
                  IF out.err
                  THEN /\ lastErr' = "backend error"
                       /\ attempt' = nextAttempt(attempt)
                       /\ UNCHANGED <<pc, steps, gatheredData>>
                  ELSE LET stepData == executeFunctionOutput(out.result)
                       IN  /\ gatheredData' = Append(gatheredData,
                                  StepData(steps + 1, action.Function, action.Arguments,
                                           stepData,
                                           ReturnedFindings(steps + 1, action.Function,
                                                            stepData)))
                           /\ steps' = steps + 1
                           /\ pc' = "Deciding"
                           /\ UNCHANGED <<attempt, lastErr>>
    /\ UNCHANGED <<currentQuery, originalQuery, action, response, err, llmLog,
                   lastAnswer, probe,
                   cancelled, shared>>

CallGUACOperation == CallGUACOperationOn(BackendOutcomes)

\* mutant: the loop goes on after the failure was recorded
GuacUnreachableAndContinue ==
    /\ pc = "CallingGUAC"
    /\ attempt >= maxGUACRetries
    /\ LET e == <<"function execution failed">> \o callGUACWithRetryError
       IN  IF errorsIs(e, errGuacUnreachable)
           THEN /\ gatheredData' = Append(gatheredData,
                       StepData(steps + 1, action.Function, action.Arguments,
                                FailedData, UnreachableFindings))
                /\ steps' = steps + 1
                /\ pc' = "Deciding"
                /\ UNCHANGED err
           ELSE /\ pc' = "Done"
                /\ err' = e
                /\ UNCHANGED <<steps, gatheredData>>
    /\ UNCHANGED <<currentQuery, originalQuery, action, attempt, lastErr, response,
                   llmLog, guacCalls, backendCalls, stepGuacCalls, lastAnswer, probe,
                   cancelled, shared>>

\* callGUACWithRetry has used up its attempts: the error goes up through
\* executeFunction and handleFunctionCall to the switch of Analyze
GuacUnreachable ==
    /\ pc = "CallingGUAC"
    /\ attempt >= maxGUACRetries
    /\ LET e == <<"function execution failed">> \o callGUACWithRetryError
       IN  IF errorsIs(e, errGuacUnreachable)
           THEN /\ gatheredData' = Append(gatheredData,
                       StepData(steps + 1, action.Function, action.Arguments,
                                FailedData, UnreachableFindings))
                /\ steps' = steps + 1
                /\ pc' = "Explaining"
                /\ UNCHANGED err
           ELSE /\ pc' = "Done"
                /\ err' = e
                /\ UNCHANGED <<steps, gatheredData>>
    /\ UNCHANGED <<currentQuery, originalQuery, action, attempt, lastErr, response,
                   llmLog, guacCalls, backendCalls, stepGuacCalls, lastAnswer, probe,
                   cancelled, shared>>

GenerateGUACFailureExplanationOn(answers) ==
    /\ pc = "Explaining"
    /\ llmLog' = Append(llmLog, GUACFailureRequest)
    /\ \E ans \in answers :
          /\ lastAnswer' = ans
          /\ IF ans.err
             THEN ReturnError(<<"failed to generate GUAC failure explanation",
                                "provider error">>)
             ELSE ReturnResponse(ans.Content, ans.TotalTokens)

GenerateGUACFailureExplanation == GenerateGUACFailureExplanationOn(LLMAnswers)

\* the loop of Analyze has ended with steps = MaxSteps
GenerateFinalSummaryOn(answers) ==
    /\ pc = "Deciding"
    /\ ~loopCondition(steps)
    /\ llmLog' = Append(llmLog, FinalSummaryRequest)
    /\ \E ans \in answers :
          /\ lastAnswer' = ans
          /\ IF ans.err
             THEN ReturnError(<<"failed to generate final summary", "provider error">>)
             ELSE ReturnResponse(ans.Content, ans.TotalTokens)

GenerateFinalSummary == GenerateFinalSummaryOn(LLMAnswers)

Next ==
    \/ GetNextAgentAction
    \/ HandleFunctionCall
    \/ CallGUACOperation
    \/ GuacUnreachable
    \/ GenerateGUACFailureExplanation
    \/ GenerateFinalSummary

Spec == Init /\ [][Next]_vars

(***************************************************************************)
(* The run when every call to the LLM provider and to the backend returns  *)
(* and the goroutine of the request keeps running.                         *)
(***************************************************************************)
\* every request to the LLM provider is answered
LLMReturns ==
    /\ WF_vars(GetNextAgentAction)
    /\ WF_vars(GenerateGUACFailureExplanation)
    /\ WF_vars(GenerateFinalSummary)

\* every call of the dispatcher returns
BackendReturns == WF_vars(CallGUACOperation)

\* the goroutine of the request keeps running; the second conjunct is
\* WF_vars(HandleFunctionCall) with ENABLED <<HandleFunctionCall>>_vars
\* written out as pc = "Executing"
AnalyzeRuns ==
    /\ WF_vars(GuacUnreachable)
    /\ ([]<>(pc # "Executing") \/ []<><<HandleFunctionCall>>_vars)

Fairness == LLMReturns /\ BackendReturns /\ AnalyzeRuns

SpecLive == Spec /\ Fairness

(***************************************************************************)
(* The same run when the client may go away: handleAnalyze passes          *)
(* r.Context() to Analyze, and the server cancels it when the connection   *)
(* closes.                                                                 *)
(***************************************************************************)
Cancel ==
    /\ pc # "Done"
    /\ ~cancelled
    /\ cancelled' = TRUE
    /\ UNCHANGED <<pc, steps, gatheredData, currentQuery, originalQuery, action,
                   attempt, lastErr, response, err, llmLog, guacCalls, backendCalls,
                   stepGuacCalls, lastAnswer, probe, shared>>

NextCancel ==
    \/ Next
    \/ Cancel

SpecCancel == Init /\ [][NextCancel]_vars

(***************************************************************************)
(* Two requests in flight.  net/http serves each request in a goroutine of *)
(* its own, and each call of Analyze works on the AgentState it made and   *)
(* on its own locals.  The variables of a run hold the goroutine that is   *)
(* taking steps (current); parked holds the others, and Switch lets        *)
(* another goroutine take the next steps.  Both runs talk to an LLM that   *)
(* answers with a call of Packages, with a call of a tool that does not    *)
(* exist, with "hello" or with an error, and to a backend that answers     *)
(* with one result or with an error.                                       *)
(***************************************************************************)
RequestIds == {1, 2}

ConcurrentQueries == <<"hi", "hi again">>

ConcurrentLLMAnswers ==
    {ans \in LLMAnswers :
        \/ ans.err
        \/ ans.FunctionCall = [Name |-> "Packages", Arguments |-> ArgsAB]
        \/ ans.FunctionCall = [Name |-> "nonexistent", Arguments |-> ArgsAB]
        \/ ans.FunctionCall = NoCall /\ ans.Content.body = "hello" /\ ans.TotalTokens = 1}

ConcurrentOutcomes == {out \in BackendOutcomes : out.result = 1}

\* the goroutine taking steps
goroutine ==
    [pc |-> pc, steps |-> steps, gatheredData |-> gatheredData,
     currentQuery |-> currentQuery, originalQuery |-> originalQuery,
     action |-> action, attempt |-> attempt, lastErr |-> lastErr,
     response |-> response, err |-> err, llmLog |-> llmLog,
     guacCalls |-> guacCalls, backendCalls |-> backendCalls,
     stepGuacCalls |-> stepGuacCalls, lastAnswer |-> lastAnswer,
     cancelled |-> cancelled]

\* the goroutine of a request at the head of the loop of Analyze
newGoroutine(query) ==
    [pc |-> "Deciding", steps |-> 0, gatheredData |-> <<>>,
     currentQuery |-> query, originalQuery |-> query,
     action |-> NoAction, attempt |-> 0, lastErr |-> "",
     response |-> NoResponse, err |-> NoError, llmLog |-> <<>>,
     guacCalls |-> 0, backendCalls |-> 0,
     stepGuacCalls |-> 0, lastAnswer |-> NoAnswer,
     cancelled |-> FALSE]

InitConcurrent ==
    /\ InitAnalyze
    /\ current = 1
    /\ parked = [r \in RequestIds \ {1} |-> newGoroutine(ConcurrentQueries[r])]
    /\ registry = Definitions
    /\ probe = NoProbe

\* mutant: one AgentState for all requests
agentStateOfProcess(g) ==
    [steps |-> steps, gatheredData |-> gatheredData,
     currentQuery |-> currentQuery, originalQuery |-> originalQuery]

\* the AgentState a goroutine works on: the one its call of Analyze made
agentStateOf(g) ==
    [steps |-> g.steps, gatheredData |-> g.gatheredData,
     currentQuery |-> g.currentQuery, originalQuery |-> g.originalQuery]

\* the goroutine of request r takes the next steps
Switch(r) ==
    /\ r # current
    /\ parked[r].pc # "Done"
    /\ current' = r
    /\ parked' = [q \in RequestIds \ {r} |->
                     IF q = current THEN goroutine ELSE parked[q]]
    /\ LET g == parked[r]
           st == agentStateOf(g)
       IN  /\ pc' = g.pc
           /\ steps' = st.steps
           /\ gatheredData' = st.gatheredData
           /\ currentQuery' = st.currentQuery
           /\ originalQuery' = st.originalQuery
           /\ action' = g.action
           /\ attempt' = g.attempt
           /\ lastErr' = g.lastErr
           /\ response' = g.response
           /\ err' = g.err
           /\ llmLog' = g.llmLog
           /\ guacCalls' = g.guacCalls
           /\ backendCalls' = g.backendCalls
           /\ stepGuacCalls' = g.stepGuacCalls
           /\ lastAnswer' = g.lastAnswer
           /\ cancelled' = g.cancelled
    /\ UNCHANGED <<registry, probe>>

NextConcurrent ==
    \/ GetNextAgentActionOn(ConcurrentLLMAnswers)
    \/ HandleFunctionCall
    \/ CallGUACOperationOn(ConcurrentOutcomes)
    \/ GuacUnreachable
    \/ GenerateGUACFailureExplanationOn(ConcurrentLLMAnswers)
    \/ GenerateFinalSummaryOn(ConcurrentLLMAnswers)
    \/ \E r \in RequestIds : Switch(r)

SpecConcurrent == InitConcurrent /\ [][NextConcurrent]_vars

TypeOK ==
    /\ pc \in {"Deciding", "Executing", "CallingGUAC", "Explaining", "Done"}
    /\ steps \in 0..MaxSteps
    /\ attempt \in 0..maxGUACRetries

(***************************************************************************)
(* jsonEqual applied on its own to every pair of argument texts.           *)
(***************************************************************************)
loopVars == <<pc, steps, gatheredData, currentQuery, originalQuery, action,
              attempt, lastErr, response, err, llmLog, guacCalls, backendCalls,
              stepGuacCalls, lastAnswer, cancelled, current, parked, registry>>

InitJsonEqual ==
    /\ InitAnalyze
    /\ InitServer
    /\ \E a \in AllArgTexts, b \in AllArgTexts :
          probe = [op |-> "input", a |-> a, b |-> b, result |-> FALSE]

ApplyJsonEqual ==
    /\ probe.op = "input"
    /\ probe' = [probe EXCEPT !.op = "jsonEqual",
                              !.result = jsonEqual(probe.a, probe.b)]
    /\ UNCHANGED loopVars

NextJsonEqual == ApplyJsonEqual

SpecJsonEqual == InitJsonEqual /\ [][NextJsonEqual]_vars

(***************************************************************************)
(* The schema synthesiser.  A string is the sequence of its characters; a  *)
(* reflect.Type is a record of its Kind and, by kind, its Elem or its      *)
(* Fields; a struct field is its Name, PkgPath (empty when exported), the  *)
(* value of the json key of its Tag, and its Type.                         *)
(***************************************************************************)
\* strings.ToLower
ToLower(s) ==
    LET UpperCase == <<"A", "B", "C", "D", "E", "F", "G", "H", "I", "J", "K", "L", "M",
                       "N", "O", "P", "Q", "R", "S", "T", "U", "V", "W", "X", "Y", "Z">>
        LowerCase == <<"a", "b", "c", "d", "e", "f", "g", "h", "i", "j", "k", "l", "m",
                       "n", "o", "p", "q", "r", "s", "t", "u", "v", "w", "x", "y", "z">>
    IN  [i \in DOMAIN s |->
            IF \E k \in DOMAIN UpperCase : UpperCase[k] = s[i]
            THEN LowerCase[CHOOSE k \in DOMAIN UpperCase : UpperCase[k] = s[i]]
            ELSE s[i]]

\* strings.Split(s, sep)[0]: the text before the first separator
SplitFirst(s, sep) ==
    IF \E i \in DOMAIN s : s[i] = sep
    THEN SubSeq(s, 1, (CHOOSE i \in DOMAIN s :
                          s[i] = sep /\ \A j \in 1..(i - 1) : s[j] # sep) - 1)
    ELSE s

jsonFieldName(f) ==
    IF f.Tag = <<"-">> THEN <<>>
    ELSE IF f.Tag = <<>> THEN ToLower(f.Name)
    ELSE SplitFirst(f.Tag, ",")

RECURSIVE indirect(_)
\* for t.Kind() == reflect.Ptr { t = t.Elem() }
indirect(t) == IF t.Kind = "Ptr" THEN indirect(t.Elem) ELSE t

\* a field of such a kind is left out of the required list
isRequiredKindOnlyPtr(kind) == kind = "Ptr"

isRequiredKind(kind) == kind \notin {"Ptr", "Slice", "Map", "Interface"}

NilSchema == [type |-> "nil"]

RECURSIVE typeToJSONSchema(_)
\* the pair (schema, error) typeToJSONSchema returns
typeToJSONSchema(t0) ==
    LET t == indirect(t0)
    IN  CASE t.Kind = "Struct" ->
               LET \* the fields the loop does not skip, in declaration order
                   kept == SelectSeq(t.Fields,
                              LAMBDA f : f.PkgPath = "" /\ jsonFieldName(f) # <<>>)
                   fieldSchema == [i \in DOMAIN kept |-> typeToJSONSchema(kept[i].Type)]
                   \* props[jsonName] = fieldSchema: a later field overwrites
                   props ==
                       [n \in {jsonFieldName(kept[i]) : i \in DOMAIN kept} |->
                           LET last == CHOOSE i \in DOMAIN kept :
                                          /\ jsonFieldName(kept[i]) = n
                                          /\ \A j \in DOMAIN kept :
                                                jsonFieldName(kept[j]) = n => j <= i
                           IN  fieldSchema[last].schema]
                   isRequired(f) == isRequiredKind(f.Type.Kind)
                   required == SelectSeq(kept, isRequired)
                   requiredFields == [i \in DOMAIN required |-> jsonFieldName(required[i])]
               IN  IF \E i \in DOMAIN kept : fieldSchema[i].err
                   THEN [schema |-> NilSchema, err |-> TRUE]
                   ELSE IF Len(requiredFields) > 0
                   THEN [schema |-> [type |-> "object", properties |-> props,
                                     required |-> requiredFields],
                         err |-> FALSE]
                   ELSE [schema |-> [type |-> "object", properties |-> props],
                         err |-> FALSE]
          [] t.Kind = "String" -> [schema |-> [type |-> "string"], err |-> FALSE]
          [] t.Kind \in {"Int", "Int64", "Int32"} -> [schema |-> [type |-> "integer"], err |-> FALSE]
          [] t.Kind \in {"Float32", "Float64"} ->
               [schema |-> [type |-> "number"], err |-> FALSE]
          [] t.Kind = "Bool" -> [schema |-> [type |-> "boolean"], err |-> FALSE]
          [] t.Kind \in {"Slice", "Array"} ->
               LET elemSchema == typeToJSONSchema(t.Elem)
               IN  IF elemSchema.err
                   THEN [schema |-> NilSchema, err |-> TRUE]
                   ELSE [schema |-> [type |-> "array", items |-> elemSchema.schema],
                         err |-> FALSE]
          [] t.Kind = "Map" ->
               LET valSchema == typeToJSONSchema(t.Elem)
               IN  IF valSchema.err
                   THEN [schema |-> NilSchema, err |-> TRUE]
                   ELSE [schema |-> [type |-> "object",
                                     additionalProperties |-> valSchema.schema],
                         err |-> FALSE]
          [] t.Kind = "Interface" -> [schema |-> [type |-> "object"], err |-> FALSE]
          [] OTHER -> [schema |-> [type |-> "string"], err |-> FALSE]

(***************************************************************************)
(* The types the synthesiser is applied to.                                *)
(***************************************************************************)
MaxFields == 2

LeafKinds == {"String", "Int", "Int8", "Int16", "Int32", "Int64", "Uint",
              "Float32", "Float64", "Bool", "Interface", "Chan"}

LeafTypes == {[Kind |-> k] : k \in LeafKinds}

ElemKinds == {"Ptr", "Slice", "Array", "Map"}

TString == [Kind |-> "String"]

FieldTypes ==
    {TString, [Kind |-> "Int16"], [Kind |-> "Interface"]}
    \cup {[Kind |-> k, Elem |-> TString] : k \in ElemKinds}

omitempty == <<"o", "m", "i", "t", "e", "m", "p", "t", "y">>

Tags == {<<>>, <<"-">>, <<"i", "d">>, <<"i", "d", ",">> \o omitempty,
         <<",">> \o omitempty}

Fields ==
    {[Name |-> <<"I", "d">>, PkgPath |-> "", Tag |-> tag, Type |-> t] :
        tag \in Tags, t \in FieldTypes}
    \cup {[Name |-> <<"N", "o">>, PkgPath |-> "", Tag |-> <<>>, Type |-> t] :
             t \in {TString, [Kind |-> "Ptr", Elem |-> TString]}}
    \cup {[Name |-> <<"i", "d">>, PkgPath |-> "tools", Tag |-> tag, Type |-> TString] :
             tag \in {<<>>, <<"i", "d">>}}

\* the fields of a struct have different names
DistinctNames(fs) == \A i \in DOMAIN fs, j \in DOMAIN fs : i # j => fs[i].Name # fs[j].Name

StructTypes ==
    {[Kind |-> "Struct", Fields |-> fs] :
        fs \in {gs \in UNION {[1..n -> Fields] : n \in 0..MaxFields} :
                   DistinctNames(gs)}}

\* a struct with a struct, a pointer to a struct and a slice of structs inside
NestedTypes ==
    LET inner == [Kind |-> "Struct",
                  Fields |-> <<[Name |-> <<"N", "o">>, PkgPath |-> "",
                                Tag |-> <<>>, Type |-> [Kind |-> "Bool"]]>>]
    IN  {[Kind |-> "Struct",
          Fields |-> <<[Name |-> <<"I", "d">>, PkgPath |-> "", Tag |-> <<>>,
                        Type |-> t]>>] :
            t \in {inner, [Kind |-> "Ptr", Elem |-> inner],
                   [Kind |-> "Slice", Elem |-> inner]}}

InputTypes ==
    LeafTypes
    \cup {[Kind |-> k, Elem |-> e] : k \in ElemKinds, e \in LeafTypes}
    \cup {[Kind |-> "Ptr", Elem |-> [Kind |-> "Ptr", Elem |-> e]] : e \in LeafTypes}
    \cup StructTypes
    \cup NestedTypes
    \cup {[Kind |-> "Ptr", Elem |-> e] : e \in NestedTypes}

InitSchema ==
    /\ InitAnalyze
    /\ InitServer
    /\ \E t \in InputTypes :
          probe = [op |-> "input", t |-> t,
                   result |-> [schema |-> NilSchema, err |-> FALSE]]

ApplyTypeToJSONSchema ==
    /\ probe.op = "input"
    /\ probe' = [probe EXCEPT !.op = "typeToJSONSchema",
                              !.result = typeToJSONSchema(probe.t)]
    /\ UNCHANGED loopVars

NextSchema == ApplyTypeToJSONSchema

SpecSchema == InitSchema /\ [][NextSchema]_vars

(***************************************************************************)
(* The registry build with its descriptors in full: name, description and  *)
(* parameters schema.  A catalog entry is the operation's qualified name,  *)
(* its number of inputs, the type of its last input and its description.   *)
(***************************************************************************)
\* strings.TrimSpace
TrimSpace(s) ==
    LET kept == {i \in DOMAIN s : s[i] \notin {" ", "\n", "\t", "\r"}}
    IN  IF kept = {} THEN <<>>
        ELSE SubSeq(s, CHOOSE i \in kept : \A j \in kept : i <= j,
                       CHOOSE i \in kept : \A j \in kept : j <= i)

toolParam(ao) ==
    [Name |-> GetRuntimeFuncName(ao),
     Description |-> TrimSpace(ao.Description),
     Parameters |-> typeToJSONSchema(ao.filter).schema]

RECURSIVE generateToolParams(_, _)
\* the loop of generateDefinitionsFromGUAC over the entries still to visit
generateToolParams(ops, definitions) ==
    IF ops = <<>> THEN definitions
    ELSE IF \/ Head(ops).numIn < 3
            \/ typeToJSONSchema(Head(ops).filter).err
         THEN generateToolParams(Tail(ops), definitions)
         ELSE generateToolParams(Tail(ops), Append(definitions, toolParam(Head(ops))))

\* the pair (definitions, error) generateDefinitionsFromGUAC returns
generateToolParamsFromGUAC(catalog) ==
    [definitions |-> generateToolParams(catalog, <<>>), err |-> FALSE]

subjectTypeName == <<"s", "u", "b", "j", "e", "c", "t", "T", "y", "p", "e">>

subjectName == <<"s", "u", "b", "j", "e", "c", "t">>

KnownQueryParam ==
    [Name |-> "KnownQuery",
     Description |-> <<"query all known info">>,
     Parameters |->
        [type |-> "object",
         properties |->
            [n \in {subjectTypeName, subjectName} |->
                [type |-> "string",
                 description |-> IF n = subjectTypeName
                                 THEN <<"one of: package, source, artifact">>
                                 ELSE <<"for package: purl">>]],
         required |-> <<subjectTypeName, subjectName>>]]

\* init() appending to what the package variable already holds
initDefinitionsAppending(old, catalog) ==
    LET generated == generateToolParamsFromGUAC(catalog)
    IN  IF generated.err THEN old
        ELSE old \o Append(generated.definitions, KnownQueryParam)

\* the value init() leaves in the package variable Definitions, given the
\* value it held before
initDefinitions(old, catalog) ==
    LET generated == generateToolParamsFromGUAC(catalog)
    IN  IF generated.err THEN old
        ELSE Append(generated.definitions, KnownQueryParam)

MaxOperations == 2

MaxBuilds == 2

FilterFields ==
    {[Name |-> <<"I", "d">>, PkgPath |-> "", Tag |-> <<"i", "d">>, Type |-> TString],
     [Name |-> <<"N", "o">>, PkgPath |-> "", Tag |-> <<>>,
      Type |-> [Kind |-> "Ptr", Elem |-> TString]],
     [Name |-> <<"I", "d">>, PkgPath |-> "", Tag |-> <<"-">>,
      Type |-> [Kind |-> "Slice", Elem |-> TString]]}

\* the last input of a catalog operation is a filter struct
FilterTypes ==
    {[Kind |-> "Struct", Fields |-> fs] :
        fs \in {gs \in [1..1 -> FilterFields] \cup [1..2 -> FilterFields] :
                   DistinctNames(gs)}}

Operations ==
    {[name |-> <<"github", "com/guacsec/guac/pkg/assembler/clients/generated", n>>,
      numIn |-> k, filter |-> t, Description |-> <<"\n", "d", " ", "d", "\n">>] :
        n \in {"Dependencies", "Packages"}, k \in {2, 3}, t \in FilterTypes}

Catalogs == UNION {[1..n -> Operations] : n \in 0..MaxOperations}

InitRegistry ==
    /\ InitAnalyze
    /\ InitServer
    /\ \E catalog \in Catalogs :
          probe = [op |-> "catalog", catalog |-> catalog,
                   Definitions |-> <<>>, builds |-> <<>>]

\* one run of init() over the catalog
BuildRegistry ==
    /\ probe.op = "catalog"
    /\ Len(probe.builds) < MaxBuilds
    /\ LET built == initDefinitions(probe.Definitions, probe.catalog)
       IN  probe' = [probe EXCEPT !.Definitions = built,
                                  !.builds = Append(@, built)]
    /\ UNCHANGED loopVars

NextRegistry == BuildRegistry

SpecRegistry == InitRegistry /\ [][NextRegistry]_vars

(***************************************************************************)
(* InvokeGUACOperation applied on its own to a tool name and an argument   *)
(* text, with a record of the operations it calls.                         *)
(***************************************************************************)
\* mutant: the lookup answers with the first entry of the catalog
opEntryFirst(fnName) == IF findOperationByName(fnName) THEN 1 ELSE 0

\* the index of the entry findOperationByName returns: the first one whose
\* runtime name is fnName; 0 stands for its not-found error
opEntry(fnName) ==
    IF findOperationByName(fnName)
    THEN CHOOSE i \in 1..Len(allowedOperations) :
            /\ GetRuntimeFuncName(allowedOperations[i]) = fnName
            /\ \A j \in 1..(i - 1) : GetRuntimeFuncName(allowedOperations[j]) # fnName
    ELSE 0

\* the filter json.Unmarshal fills in for a text unmarshalFilterFromJSON
\* accepts: a new zero filter, its id set by the last "id" member of the
\* object (null leaves nil), every other member skipped
filterVal(data) ==
    LET s == StripWS(data)
        members == IF Len(s) > 2 THEN MembersOf(SubSeq(s, 2, Len(s) - 1)) ELSE <<>>
        ids == {j \in 1..Len(members) : members[j].k = "id"}
    IN  [id |-> IF ids = {} THEN NilVal
                ELSE members[CHOOSE j \in ids : \A j2 \in ids : j2 <= j].v]

NilInterface == [isNil |-> TRUE, value |-> 0]

\* the tool names of the registry and one that is not there, with the
\* argument texts and two more that set the id of the filter
InvokeInputs ==
    [fnName : {Definitions[i] : i \in DOMAIN Definitions} \cup {"nonexistent"},
     data : AllArgTexts
            \cup {<<"{", "\"id\"", ":", "\"a\"", ",", "\"b\"", ":", "2", "}">>,
                  <<"{", "\"id\"", ":", "\"a\"", ",", "\"id\"", ":", "\"b\"", "}">>}]

InitInvoke ==
    /\ InitAnalyze
    /\ InitServer
    /\ \E in \in InvokeInputs :
          probe = [op |-> "input", fnName |-> in.fnName, data |-> in.data,
                   invoked |-> <<>>, result |-> NilInterface, err |-> NoError]

InvokeGUACOperation ==
    /\ probe.op = "input"
    /\ IF opEntry(probe.fnName) = 0
       THEN probe' = [probe EXCEPT !.op = "InvokeGUACOperation",
                                   !.err = <<"operation not found">>]
       ELSE IF ~unmarshalFilterFromJSON(probe.data)
       THEN probe' = [probe EXCEPT !.op = "InvokeGUACOperation",
                                   !.err = <<"failed to unmarshal JSON into filter type">>]
       ELSE \E out \in callOperation(FALSE) :
               probe' = [probe EXCEPT
                           !.op = "InvokeGUACOperation",
                           !.invoked = Append(@, [Operation |-> opEntry(probe.fnName),
                                                  filter |-> filterVal(probe.data),
                                                  out |-> out]),
                           !.result = IF out.err THEN NilInterface
                                      ELSE [isNil |-> FALSE, value |-> out.result],
                           !.err = IF out.err THEN <<"backend error">> ELSE NoError]
    /\ UNCHANGED loopVars

NextInvoke == InvokeGUACOperation

SpecInvoke == InitInvoke /\ [][NextInvoke]_vars

(***************************************************************************)
(* The Known-Query tool.  The backend's answers are its inputs: the answer *)
(* of the subject lookup (an error, or a number of matches), the answers   *)
(* of the Neighbors queries (an error, or the neighbour nodes, each with   *)
(* its kind and id), and the answers to getAssociatedArtifact.  A return   *)
(* value carries, next to the result and the error, the backend calls      *)
(* made, the lookup answer used and the path before deduplication.         *)
(***************************************************************************)
MaxMatches == 2

MaxNeighbors == 2

\* mutant: the path is kept as it is
removeDuplicateValuesFromPathKeepAll(path) == path

removeDuplicateValuesFromPath(path) ==
    LET RECURSIVE loop(_, _, _)
        loop(rest, seen, result) ==
            IF rest = <<>> THEN result
            ELSE IF Head(rest) \in seen THEN loop(Tail(rest), seen, result)
            ELSE loop(Tail(rest), seen \cup {Head(rest)}, Append(result, Head(rest)))
    IN  loop(path, {}, <<>>)

RECURSIVE Join(_, _)
\* strings.Join
Join(elems, sep) ==
    IF elems = <<>> THEN <<>>
    ELSE IF Len(elems) = 1 THEN elems
    ELSE <<Head(elems), sep>> \o Join(Tail(elems), sep)

RECURSIVE Split(_, _)
\* strings.Split
Split(s, sep) ==
    IF \E i \in DOMAIN s : s[i] = sep
    THEN <<SplitFirst(s, sep)>>
         \o Split(SubSeq(s, Len(SplitFirst(s, sep)) + 2, Len(s)), sep)
    ELSE <<s>>

\* fmt.Sprintf("http://localhost:3000/?path=%v", strings.Join(path, ","))
VisualizerUrl(path) == <<"http://localhost:3000/?path=">> \o Join(path, ",")

\* the neighbour kinds queryKnownNeighbors collects (four of its twelve)
CollectedKinds == {"CertifyBad", "HasSBOM", "HasSLSA", "IsOccurrence"}

\* the nodes a Neighbors query may answer with; a package node is of no
\* collected kind
NeighborNodes ==
    {[kind |-> "CertifyBad", Id |-> "e1"], [kind |-> "HasSBOM", Id |-> "e2"],
     [kind |-> "HasSLSA", Id |-> "e3"], [kind |-> "IsOccurrence", Id |-> "e4"],
     [kind |-> "Package", Id |-> "e5"]}

NeighborsResponses(nodes) ==
    {[err |-> TRUE, Neighbors |-> <<>>]}
    \cup {[err |-> FALSE, Neighbors |-> ns] :
            ns \in UNION {[1..k -> nodes] : k \in 0..MaxNeighbors}}

\* the answers to a lookup (Packages, Sources, Artifacts): an error, or so
\* many matches
LookupResponses ==
    {[err |-> TRUE, matches |-> 0]}
    \cup {[err |-> FALSE, matches |-> m] : m \in 0..MaxMatches}

NoLookup == [err |-> FALSE, matches |-> 0]

NoAssociated == [lookup |-> NoLookup, neighbors |-> [err |-> FALSE, Neighbors |-> <<>>]]

\* the answers to the two calls of getAssociatedArtifact for an occurrence:
\* the Artifacts lookup and, after exactly one match, the Neighbors query
\* filtered to one edge
AssociatedResponses(kind) ==
    {[lookup |-> l, neighbors |-> NoAssociated.neighbors] :
        l \in {r \in LookupResponses : r.err \/ r.matches # 1}}
    \cup {[lookup |-> [err |-> FALSE, matches |-> 1], neighbors |-> n] :
            n \in {[err |-> TRUE, Neighbors |-> <<>>],
                   [err |-> FALSE, Neighbors |-> <<>>],
                   [err |-> FALSE, Neighbors |-> <<[kind |-> kind, Id |-> "e6"]>>],
                   [err |-> FALSE, Neighbors |-> <<[kind |-> "Package", Id |-> "e5"]>>]}}

\* the two results and the backend calls of queryKnownNeighbors
queryKnownNeighbors(subjectQueryID, neighborResponse) ==
    LET collected == SelectSeq(neighborResponse.Neighbors, LAMBDA v : v.kind \in CollectedKinds)
    IN  [err |-> neighborResponse.err,
         neighbors |-> IF neighborResponse.err THEN <<>> ELSE collected,
         path |-> IF neighborResponse.err THEN <<>>
                  ELSE [i \in DOMAIN collected |-> collected[i].Id],
         calls |-> <<[op |-> "Neighbors", node |-> subjectQueryID, usingOnly |-> <<>>]>>]

\* mutant: the edge is queried without the artifact being resolved
getAssociatedArtifactUnresolved(edge, answer) ==
    [err |-> answer.neighbors.err,
     Neighbors |-> answer.neighbors.Neighbors,
     calls |-> <<[op |-> "Neighbors", node |-> "a1", usingOnly |-> <<edge>>]>>]

\* the response, the error and the backend calls of getAssociatedArtifact
getAssociatedArtifact(edge, answer) ==
    LET artifacts == <<[op |-> "Artifacts", filter |-> "occurrence.Artifact"]>>
    IN  IF answer.lookup.err \/ answer.lookup.matches # 1
        THEN [err |-> TRUE, Neighbors |-> <<>>, calls |-> artifacts]
        ELSE [err |-> answer.neighbors.err,
              Neighbors |-> answer.neighbors.Neighbors,
              calls |-> Append(artifacts,
                               [op |-> "Neighbors", node |-> "a1", usingOnly |-> <<edge>>])]

\* the rows getOutputBasedOnNode returns, with the backend calls it makes;
\* the associated-artifact answer is the same for every occurrence
getOutputBasedOnNode(collectedNeighbors, nodeType, subjectIsArtifact, associated) ==
    LET ofKind(k) == SelectSeq(collectedNeighbors, LAMBDA v : v.kind = k)
        rowsOf(nodes, info) ==
            [i \in DOMAIN nodes |->
                [NodeType |-> nodeType, NodeID |-> nodes[i].Id, ExtraInfo |-> info]]
        fallback(kind, edge, info) ==
            LET got == getAssociatedArtifact(edge, associated[nodeType])
                found == IF got.err THEN <<>>
                         ELSE rowsOf(SelectSeq(got.Neighbors, LAMBDA v : v.kind = kind), info)
                RECURSIVE each(_)
                each(occurrences) ==
                    IF occurrences = <<>> THEN [rows |-> <<>>, calls |-> <<>>]
                    ELSE LET rest == each(Tail(occurrences))
                         IN  [rows |-> found \o rest.rows, calls |-> got.calls \o rest.calls]
            IN  each(ofKind("IsOccurrence"))
    IN  CASE nodeType = "badLink" ->
               [rows |-> rowsOf(ofKind("CertifyBad"), "justification: "), calls |-> <<>>]
          [] nodeType = "hasSBOM" ->
               IF Len(ofKind("HasSBOM")) > 0
               THEN [rows |-> rowsOf(ofKind("HasSBOM"), "SBOM Download Location: "),
                     calls |-> <<>>]
               ELSE fallback("HasSBOM", "ARTIFACT_HAS_SBOM", "SBOM Download Location: ")
          [] nodeType = "hasSLSA" ->
               IF Len(ofKind("HasSLSA")) > 0
               THEN [rows |-> rowsOf(ofKind("HasSLSA"), "SLSA Attestation Location: "),
                     calls |-> <<>>]
               ELSE fallback("HasSLSA", "ARTIFACT_HAS_SLSA", "SLSA Attestation Location: ")
          [] nodeType = "occurrence" ->
               [rows |-> rowsOf(ofKind("IsOccurrence"),
                                IF subjectIsArtifact THEN "Occurrence for Package: "
                                ELSE "Occurrence for Artifact: "),
                calls |-> <<>>]
          [] OTHER -> [rows |-> <<>>, calls |-> <<>>]

RECURSIVE sectionRows(_, _, _, _)
\* the appends of getOutputBasedOnNode rows, one per node type, in order
sectionRows(collectedNeighbors, nodeTypes, subjectIsArtifact, associated) ==
    IF nodeTypes = <<>> THEN [rows |-> <<>>, calls |-> <<>>]
    ELSE LET first == getOutputBasedOnNode(collectedNeighbors, Head(nodeTypes),
                                           subjectIsArtifact, associated)
             rest == sectionRows(collectedNeighbors, Tail(nodeTypes),
                                 subjectIsArtifact, associated)
         IN  [rows |-> first.rows \o rest.rows, calls |-> first.calls \o rest.calls]

\* the associated-artifact answers a section's rows can use: one for the
\* SBOM edge and one for the SLSA edge, each only when the section has rows
\* of that type, no direct neighbour of the kind and an occurrence
Associated(collectedNeighbors, nodeTypes) ==
    LET has(k) == \E i \in DOMAIN collectedNeighbors : collectedNeighbors[i].kind = k
        answers(nodeType, kind) ==
            IF /\ \E i \in DOMAIN nodeTypes : nodeTypes[i] = nodeType
               /\ ~has(kind)
               /\ has("IsOccurrence")
            THEN AssociatedResponses(kind) ELSE {NoAssociated}
    IN  [hasSBOM : answers("hasSBOM", "HasSBOM"), hasSLSA : answers("hasSLSA", "HasSLSA")]

\* mutant: a lookup with several matches is accepted as well
locatedAny(lookupResponse) == lookupResponse.matches >= 1

\* len(response) != 1 does not hold of a lookup response
located(lookupResponse) == lookupResponse.matches = 1

\* a return with an error and no result
knownFailed(error, calls, lookup) ==
    [err |-> error, result |-> [present |-> FALSE], calls |-> calls, lookup |-> lookup,
     fullPath |-> <<>>]

knownSection(title, rows, edges) == [Title |-> title, Rows |-> rows, Edges |-> edges]

knownResult(sections, path) ==
    [present |-> TRUE, Sections |-> sections,
     VisualizerUrl |-> VisualizerUrl(removeDuplicateValuesFromPath(path))]

\* the returns of knownQueryPackage over the answers of helpers.PurlToPkg
\* and of the backend; the one match has the ids t1, ns1, n1, v1
knownQueryPackage(purl) ==
    LET packages == <<[op |-> "Packages", filter |-> purl]>>
        nameTypes == <<"hasSrcAt", "badLink", "goodLink">>
        versionTypes == <<"certifyVuln", "hasSBOM", "occurrence", "certifyLegal",
                          "hasSLSA", "vexLink", "pkgEqual", "badLink", "goodLink">>
        nameNodes == {v \in NeighborNodes : v.kind \in {"CertifyBad", "HasSBOM"}}
    IN  {knownFailed(<<"failed to parse PURL">>, <<>>, NoLookup)}
        \cup UNION {
          IF pkgResponse.err
          THEN {knownFailed(<<"backend error">>, packages, pkgResponse)}
          ELSE IF ~located(pkgResponse)
          THEN {knownFailed(<<"failed to locate package based on purl">>, packages,
                            pkgResponse)}
          ELSE UNION {
            LET name == queryKnownNeighbors("n1", nameResponse)
            IN  IF name.err
                THEN {knownFailed(<<"error querying for package name neighbors">>,
                                  packages \o name.calls, pkgResponse)}
                ELSE UNION {
                  LET version == queryKnownNeighbors("v1", versionResponse)
                  IN  IF version.err
                      THEN {knownFailed(<<"error querying for package version neighbors">>,
                                        packages \o name.calls \o version.calls,
                                        pkgResponse)}
                      ELSE {LET nameRows == sectionRows(name.neighbors, nameTypes,
                                                        FALSE, associated)
                                versionRows == sectionRows(version.neighbors, versionTypes,
                                                           FALSE, associated)
                                namePathFull == <<"n1", "ns1", "t1">> \o name.path
                                versionPathFull == <<"v1", "n1", "ns1", "t1">> \o version.path
                            IN  [err |-> NoError,
                                 result |->
                                    knownResult(
                                       <<knownSection("Package Name Nodes", nameRows.rows,
                                                      name.path),
                                         knownSection("Package Version Nodes",
                                                      versionRows.rows, version.path)>>,
                                       namePathFull \o versionPathFull),
                                 calls |-> packages \o name.calls \o nameRows.calls
                                           \o version.calls \o versionRows.calls,
                                 lookup |-> pkgResponse,
                                 fullPath |-> namePathFull \o versionPathFull] :
                              associated \in Associated(version.neighbors, versionTypes)} :
                  versionResponse \in NeighborsResponses(NeighborNodes)} :
            nameResponse \in NeighborsResponses(nameNodes)} :
          pkgResponse \in LookupResponses}

\* the returns of a query with one section: knownQuerySource after its
\* parse and knownQueryArtifact after its split
knownQueryOneSection(lookupCall, notFound, neighborsFailed, chain, title, nodeTypes, isArtifact) ==
    UNION {
      IF lookupResponse.err
      THEN {knownFailed(<<"backend error">>, <<lookupCall>>, lookupResponse)}
      ELSE IF ~located(lookupResponse)
      THEN {knownFailed(<<notFound>>, <<lookupCall>>, lookupResponse)}
      ELSE UNION {
        LET found == queryKnownNeighbors(chain[1], neighborResponse)
        IN  IF found.err
            THEN {knownFailed(<<neighborsFailed>>, <<lookupCall>> \o found.calls,
                              lookupResponse)}
            ELSE {LET rows == sectionRows(found.neighbors, nodeTypes, isArtifact,
                                          associated)
                      fullPath == chain \o found.path
                  IN  [err |-> NoError,
                       result |-> knownResult(<<knownSection(title, rows.rows, found.path)>>,
                                              fullPath),
                       calls |-> <<lookupCall>> \o found.calls \o rows.calls,
                       lookup |-> lookupResponse,
                       fullPath |-> fullPath] :
                    associated \in Associated(found.neighbors, nodeTypes)} :
        neighborResponse \in NeighborsResponses(NeighborNodes)} :
      lookupResponse \in LookupResponses}

\* the one match has the ids st1, sns1, sn1
knownQuerySource(subject) ==
    {knownFailed(<<"failed to parse source">>, <<>>, NoLookup)}
    \cup knownQueryOneSection([op |-> "Sources", filter |-> subject],
                              "failed to locate source based on input",
                              "error querying for source neighbors",
                              <<"sn1", "sns1", "st1">>, "Source Nodes",
                              <<"hasSrcAt", "occurrence", "scorecard", "badLink",
                                "goodLink">>, FALSE)

\* mutant: what follows a second colon is ignored
knownQueryArtifactFirstTwo(subject) ==
    LET split == Split(subject, ":")
    IN  IF Len(split) < 2
        THEN {knownFailed(<<"artifact must be in algorithm:digest form">>, <<>>, NoLookup)}
        ELSE knownQueryOneSection(
                [op |-> "Artifacts",
                 filter |-> [Algorithm |-> ToLower(split[1]), Digest |-> ToLower(split[2])]],
                "failed to locate artifact based on (algorithm:digest)",
                "error querying for artifact neighbors",
                <<"a1">>, "Artifact Nodes",
                <<"hashEqual", "occurrence", "hasSBOM", "hasSLSA", "vexLink", "badLink",
                  "goodLink">>, TRUE)

\* the one match has the id a1
knownQueryArtifact(subject) ==
    LET split == Split(subject, ":")
    IN  IF Len(split) # 2
        THEN {knownFailed(<<"artifact must be in algorithm:digest form">>, <<>>, NoLookup)}
        ELSE knownQueryOneSection(
                [op |-> "Artifacts",
                 filter |-> [Algorithm |-> ToLower(split[1]), Digest |-> ToLower(split[2])]],
                "failed to locate artifact based on (algorithm:digest)",
                "error querying for artifact neighbors",
                <<"a1">>, "Artifact Nodes",
                <<"hashEqual", "occurrence", "hasSBOM", "hasSLSA", "vexLink", "badLink",
                  "goodLink">>, TRUE)

KnownQuery(input) ==
    CASE input.SubjectType = "package" -> knownQueryPackage(input.Subject)
      [] input.SubjectType = "source" -> knownQuerySource(input.Subject)
      [] input.SubjectType = "artifact" -> knownQueryArtifact(input.Subject)
      [] OTHER -> {knownFailed(<<"invalid subjectType: must be package, source, or artifact">>,
                               <<>>, NoLookup)}

knownQueryInputs ==
    {[SubjectType |-> "package", Subject |-> <<"p", "k", "g", ":", "a">>],
     [SubjectType |-> "source", Subject |-> <<"g", "i", "t", "+", "a">>],
     [SubjectType |-> "Package", Subject |-> <<"p", "k", "g", ":", "a">>],
     [SubjectType |-> "", Subject |-> <<>>]}
    \cup {[SubjectType |-> "artifact", Subject |-> s] :
            s \in {<<"S", "h", "a", ":", "A", "b">>, <<"s", "h", "a">>,
                   <<"a", ":", "b", ":", "c">>, <<>>}}

InitKnown ==
    /\ InitAnalyze
    /\ InitServer
    /\ \E input \in knownQueryInputs :
          probe = [op |-> "input", input |-> input,
                   return |-> knownFailed(NoError, <<>>, NoLookup)]

ApplyKnownQuery ==
    /\ probe.op = "input"
    /\ \E return \in KnownQuery(probe.input) :
          probe' = [probe EXCEPT !.op = "KnownQuery", !.return = return]
    /\ UNCHANGED loopVars

NextKnown == ApplyKnownQuery

SpecKnown == InitKnown /\ [][NextKnown]_vars

(***************************************************************************)
(* The HTTP boundary: one request to one of the two routes, answered by    *)
(* its handler; handleAnalyze runs Analyze in between.  probe holds the    *)
(* request and what the handler wrote (status 0: nothing written yet,      *)
(* analyzed: s.analyzer.Analyze was called).                               *)
(***************************************************************************)
\* the requests the handlers tell apart: the two routes of the mux, the
\* method each allows and two others, and a body json.Decode cannot decode
\* into an AnalysisRequest or one per query
HTTPRequests ==
    LET Methods == {"GET", "POST", "PUT"}
        Routes == {"/api/v1/analyze", "/api/v1/health"}
        Bodies == {[malformed |-> TRUE, Query |-> ""]}
                      \cup {[malformed |-> FALSE, Query |-> q] : q \in Queries}
    IN  {[op |-> "request", path |-> p, method |-> m, body |-> b,
          status |-> 0, analyzed |-> FALSE] :
            p \in Routes, m \in Methods, b \in Bodies}

\* the server listening, one request received and not yet handled
InitHTTP ==
    /\ InitServer
    /\ probe \in HTTPRequests
    /\ pc = "Serving"
    /\ steps = 0
    /\ gatheredData = <<>>
    /\ currentQuery = ""
    /\ originalQuery = ""
    /\ action = NoAction
    /\ attempt = 0
    /\ lastErr = ""
    /\ response = NoResponse
    /\ err = NoError
    /\ llmLog = <<>>
    /\ guacCalls = 0
    /\ backendCalls = 0
    /\ stepGuacCalls = 0
    /\ lastAnswer = NoAnswer
    /\ cancelled = FALSE

\* handleAnalyze up to the call of s.analyzer.Analyze, which sets up the
\* state of the run
handleAnalyze ==
    /\ pc = "Serving"
    /\ probe.path = "/api/v1/analyze"
    /\ probe.status = 0
    /\ IF probe.method # "POST"
       THEN /\ probe' = [probe EXCEPT !.status = 405]
            /\ UNCHANGED <<pc, currentQuery, originalQuery>>
       ELSE IF probe.body.malformed
       THEN /\ probe' = [probe EXCEPT !.status = 400]
            /\ UNCHANGED <<pc, currentQuery, originalQuery>>
       ELSE /\ probe' = [probe EXCEPT !.analyzed = TRUE]
            /\ pc' = "Deciding"
            /\ currentQuery' = probe.body.Query
            /\ originalQuery' = probe.body.Query
    /\ UNCHANGED <<steps, gatheredData, action, attempt, lastErr, response, err,
                   llmLog, guacCalls, backendCalls, stepGuacCalls, lastAnswer,
                   cancelled, shared>>

\* handleAnalyze once Analyze has returned
handleAnalyzeReturn ==
    /\ pc = "Done"
    /\ probe.status = 0
    /\ probe' = [probe EXCEPT !.status = handleAnalyzeStatus(response, err)]
    /\ UNCHANGED loopVars

handleHealth ==
    /\ pc = "Serving"
    /\ probe.path = "/api/v1/health"
    /\ probe.status = 0
    /\ probe' = [probe EXCEPT !.status = IF probe.method # "GET" THEN 405 ELSE 200]
    /\ UNCHANGED loopVars

NextHTTP ==
    \/ handleAnalyze
    \/ handleAnalyzeReturn
    \/ handleHealth
    \/ Next

SpecHTTP == InitHTTP /\ [][NextHTTP]_vars

(***************************************************************************)
(* Notions the properties below are stated in.                             *)
(***************************************************************************)
\* the pairs of argument texts that denote the same JSON value
SameJSONValuePairs ==
    {p \in AllArgTexts \X AllArgTexts :
        LET a == jsonUnmarshal(p[1])
            b == jsonUnmarshal(p[2])
        IN  a.ok /\ b.ok /\ a.val = b.val}

SameJSONValue(a, b) == <<a, b>> \in SameJSONValuePairs

\* the pairs of argument texts the duplicate test of the loop holds of
DuplicatePairs == {p \in AllArgTexts \X AllArgTexts : jsonEqual(p[1], p[2])}

\* the recorded steps the call being executed repeats
RepeatedSteps ==
    {i \in 1..Len(gatheredData) :
        /\ gatheredData[i].FunctionName = action.Function
        /\ <<gatheredData[i].Arguments, action.Arguments>> \in DuplicatePairs}

EarliestRepeated == CHOOSE i \in RepeatedSteps : \A j \in RepeatedSteps : i <= j

ExecutingRepeat == pc = "Executing" /\ RepeatedSteps # {}

\* a text as it should be kept: whole up to 5000 bytes, else its first 5000
\* bytes and the 12 bytes of "\n[truncated]"
KeptText(t) ==
    IF t.len <= 5000 THEN t ELSE [body |-> t.body, len |-> 5012, cut |-> TRUE]

\* the goroutine of request r
requestState(r) == IF r = current THEN goroutine ELSE parked[r]

ToolLevelErrors == {"operation not found", "failed to unmarshal JSON into filter type"}

LLMErrors == {"LLM analysis failed", "failed to generate final summary",
              "failed to generate GUAC failure explanation"}

(***************************************************************************)
(* Properties.                                                             *)
(***************************************************************************)

\* C1: in every state of Analyze, and in every response it returns, steps
\* is the number of StepData gathered and lies in 0..MaxSteps.
C1_StepsCountGatheredData ==
    /\ steps = Len(gatheredData)
    /\ 0 <= steps /\ steps <= 5
    /\ response # NoResponse =>
          /\ response.Steps = Len(response.GuacData)
          /\ 0 <= response.Steps /\ response.Steps <= 5

\* a response after five steps, one of them a reuse
C1_Witness ==
    /\ pc = "Done" /\ response # NoResponse
    /\ response.Steps = 5
    /\ \E i \in 1..5 : response.GuacData[i].Findings.kind = "reused"

\* C2: a tool call repeating a recorded step makes no dispatcher or backend
\* call; it appends one StepData carrying the data of the earliest matching
\* step j with findings naming j, adds one to steps and returns to the head
\* of the loop.  A call the backend answers at once costs one dispatcher
\* call, and no call is executed twice, so N identical calls in a row make
\* one backend call.
C2_RepeatIsNotReinvoked ==
    [][/\ ExecutingRepeat =>
             /\ guacCalls' = guacCalls
             /\ backendCalls' = backendCalls
             /\ gatheredData' = Append(gatheredData,
                   [StepNumber |-> steps + 1,
                    FunctionName |-> action.Function,
                    Arguments |-> action.Arguments,
                    Data |-> gatheredData[EarliestRepeated].Data,
                    Findings |-> [kind |-> "reused", step |-> steps + 1,
                                  fn |-> action.Function, from |-> EarliestRepeated,
                                  data |-> Text("", 0)]])
             /\ steps' = steps + 1
             /\ pc' = "Deciding"
       /\ (pc = "CallingGUAC" /\ attempt = 0 /\ pc' = "Deciding") =>
             (guacCalls' = guacCalls + 1 /\ backendCalls' = backendCalls + 1)
       /\ \A i, j \in 1..Len(gatheredData') :
             (/\ i < j
              /\ gatheredData'[i].FunctionName = gatheredData'[j].FunctionName
              /\ <<gatheredData'[i].Arguments, gatheredData'[j].Arguments>>
                    \in DuplicatePairs)
             => gatheredData'[j].Findings.kind = "reused"
      ]_vars

\* the same call three times in a row, written in two ways: one backend call
C2_Witness ==
    /\ pc = "Deciding" /\ steps = 3
    /\ \A i \in 1..3 : gatheredData[i].FunctionName = "Packages"
    /\ gatheredData[1].Arguments # gatheredData[2].Arguments
    /\ gatheredData[2].Findings.kind = "reused"
    /\ gatheredData[3].Findings.kind = "reused"
    /\ guacCalls = 1 /\ backendCalls = 1

\* C3: of two recorded steps with the same function name and arguments
\* denoting the same JSON value, the later one is a reuse and carries the
\* data of the earlier one.
C3_RepeatsShareData ==
    \A i, j \in 1..Len(gatheredData) :
       (/\ i < j
        /\ gatheredData[i].FunctionName = gatheredData[j].FunctionName
        /\ SameJSONValue(gatheredData[i].Arguments, gatheredData[j].Arguments))
       => /\ gatheredData[j].Data = gatheredData[i].Data
          /\ gatheredData[j].Findings.kind = "reused"

\* two real results that differ, then a repeat of the second call written
\* differently
C3_Witness ==
    /\ Len(gatheredData) >= 3
    /\ gatheredData[1].Data # gatheredData[2].Data
    /\ gatheredData[2].FunctionName = gatheredData[3].FunctionName
    /\ gatheredData[2].Arguments # gatheredData[3].Arguments
    /\ SameJSONValue(gatheredData[2].Arguments, gatheredData[3].Arguments)
    /\ gatheredData[3].Data = gatheredData[2].Data

\* C4: the duplicate test holds of two argument texts exactly when they
\* denote the same JSON value (or are the same text).
C4_DuplicateTestIsJSONEquality ==
    probe.op = "jsonEqual" =>
       (probe.result <=> (probe.a = probe.b \/ SameJSONValue(probe.a, probe.b)))

\* C5: at the head of the loop with steps = MaxSteps no Deciding request is
\* made; one request is sent, saying the maximum of 5 steps was reached,
\* without tools and with an empty user message, and the response carries
\* its content and steps = 5.
C5_ForcedSummary ==
    [][(pc = "Deciding" /\ steps = 5) =>
          /\ pc' = "Done"
          /\ Len(llmLog') = Len(llmLog) + 1
          /\ SubSeq(llmLog', 1, Len(llmLog)) = llmLog
          /\ llmLog'[Len(llmLog')].kind = "summary"
          /\ llmLog'[Len(llmLog')].maxSteps = 5
          /\ ~llmLog'[Len(llmLog')].tools
          /\ llmLog'[Len(llmLog')].user = ""
          /\ Cardinality({i \in 1..Len(llmLog') : llmLog'[i].kind = "decide"}) = 5
          /\ guacCalls' = guacCalls
          /\ ~lastAnswer'.err =>
                /\ response' # NoResponse
                /\ response'.Result.body = lastAnswer'.Content.body
                /\ response'.Steps = 5
      ]_vars

\* a response of the forced summary
C5_Witness ==
    /\ pc = "Done" /\ response # NoResponse
    /\ Len(llmLog) = 6
    /\ llmLog[6].kind = "summary"
    /\ response.Steps = 5

C7_AtMostOneRetry ==
    [][pc = "CallingGUAC" =>
          /\ stepGuacCalls' <= 2
          /\ (guacCalls' # guacCalls /\ stepGuacCalls >= 1) => lastErr # ""
          /\ pc' = "Deciding" =>
                /\ steps' = steps + 1
                /\ \E r \in 0..NumResults :
                      gatheredData' = Append(gatheredData,
                         [StepNumber |-> steps + 1,
                          FunctionName |-> action.Function,
                          Arguments |-> action.Arguments,
                          Data |-> executeFunctionOutput(r),
                          Findings |-> [kind |-> "returned", step |-> steps + 1,
                                        fn |-> action.Function, from |-> 0,
                                        data |-> executeFunctionOutput(r)]])
      ]_vars

\* the retry succeeded
C7_Witness ==
    /\ pc = "Deciding" /\ steps = 1
    /\ stepGuacCalls = 2 /\ backendCalls = 2
    /\ gatheredData[1].Findings.kind = "returned"

\* C8: after a tool-level failure (unknown tool, arguments that do not
\* decode) a StepData is recorded, steps grows by one and control returns
\* to the head of the loop.
C8_ToolFailureContinuesLoop ==
    [][(pc = "CallingGUAC" /\ lastErr \in ToolLevelErrors /\ pc' # "CallingGUAC") =>
          /\ pc' = "Deciding"
          /\ steps' = steps + 1
          /\ Len(gatheredData') = Len(gatheredData) + 1
      ]_vars

\* C9: Analyze returns an error only when its last LLM call failed; a
\* failed tool call never does that.
C9_OnlyLLMFailureIsReturned ==
    (pc = "Done" /\ err # NoError) =>
       /\ lastAnswer.err
       /\ err[1] \in LLMErrors
       /\ llmLog # <<>>

\* a response returned after the LLM asked for a made-up tool
C9_Witness ==
    /\ pc = "Done" /\ response # NoResponse /\ err = NoError
    /\ lastErr = "operation not found"
    /\ guacCalls = 2

\* C10: an LLM call that returns an error ends Analyze with that error:
\* no response, no further LLM, dispatcher or backend call.
C10_LLMFailureEndsAnalyze ==
    [][/\ pc # "Done"
       /\ (llmLog' # llmLog /\ lastAnswer'.err) =>
             /\ pc' = "Done"
             /\ err' # NoError
             /\ err'[1] \in LLMErrors
             /\ err'[Len(err')] = "provider error"
             /\ response' = NoResponse
             /\ Len(llmLog') = Len(llmLog) + 1
             /\ guacCalls' = guacCalls
             /\ backendCalls' = backendCalls
      ]_vars

\* the forced-summary call failed after five steps
C10_Witness ==
    /\ pc = "Done" /\ response = NoResponse
    /\ err = <<"failed to generate final summary", "provider error">>
    /\ steps = 5 /\ Len(llmLog) = 6

\* C11: once the context of the request is cancelled, Analyze sends no
\* further request to the LLM, invokes no further operation on the backend
\* and returns no response.
C11_CancellationStopsLoop ==
    [][cancelled =>
          /\ llmLog' = llmLog
          /\ backendCalls' = backendCalls
          /\ response' = NoResponse
      ]_vars

\* C12: in one run of Analyze the number of requests sent to the LLM never
\* exceeds MaxSteps + 2 = 7 and the number of dispatcher calls never exceeds
\* MaxSteps * (maxGUACRetries + 1) = 15.
C12_CallsAreBounded ==
    /\ MaxSteps + 2 = 7
    /\ MaxSteps * (maxGUACRetries + 1) = 15
    /\ Len(llmLog) <= 7
    /\ guacCalls <= 15
    /\ backendCalls <= guacCalls

\* five steps and the forced summary, two of the steps after a retry
C12_Witness ==
    /\ pc = "Done"
    /\ Len(llmLog) = MaxSteps + 1
    /\ guacCalls = 2 * maxGUACRetries

\* C13: when every call returns, Analyze reaches Done: leaving the
\* execution of a tool call (a real, a repeated or a failed one) adds one to
\* steps, and the loop is left once steps = MaxSteps.
C13_AnalyzeTerminates ==
    /\ <>(pc = "Done")
    /\ [][(pc \in {"Executing", "CallingGUAC"} /\ pc' \notin {"Executing", "CallingGUAC"})
            => steps' = steps + 1]_vars
    /\ [][(pc = "Deciding" /\ steps = MaxSteps) => pc' = "Done"]_vars

\* the LLM asked for a tool in each of its five turns, and Analyze returned
C13_Witness ==
    /\ pc = "Done"
    /\ steps = MaxSteps
    /\ \A i \in 1..MaxSteps : llmLog[i].kind = "decide"

\* C14: a response, whichever of the three ways it was built (final answer
\* of the LLM, forced summary, explanation of a GUAC failure), carries the
\* total token count of the last LLM call, the final step counter, the whole
\* gatheredData, and one query per StepData in the same order, made of its
\* function name and arguments.
C14_ResponseFields ==
    (pc = "Done" /\ response # NoResponse) =>
       /\ llmLog[Len(llmLog)].kind \in {"decide", "summary", "explain"}
       /\ response.TokensUsed = lastAnswer.TotalTokens
       /\ response.Steps = steps
       /\ response.GuacData = gatheredData
       /\ Len(response.Queries) = Len(response.GuacData)
       /\ \A i \in 1..Len(response.GuacData) :
             response.Queries[i] =
                [function |-> response.GuacData[i].FunctionName,
                 arguments |-> response.GuacData[i].Arguments]

\* an explanation of a GUAC failure after two different calls went through;
\* its token count is not that of any earlier LLM call
C14_Witness ==
    /\ pc = "Done" /\ response # NoResponse
    /\ llmLog[Len(llmLog)].kind = "explain"
    /\ Len(response.Queries) = 3
    /\ response.Queries[1] # response.Queries[2]
    /\ response.TokensUsed = MaxUsage

\* C15: the result text of a response and the tool result text of a
\* StepData are never longer than 5012 bytes: the text the LLM answered, and
\* the JSON of the backend's result, are kept whole up to 5000 bytes and
\* otherwise cut to 5000 bytes followed by the 12 bytes "\n[truncated]".
C15_TextsAreTruncated ==
    /\ Len("\n[truncated]") = 12
    /\ response # NoResponse =>
          /\ response.Result.len <= 5012
          /\ response.Result = KeptText(lastAnswer.Content)
    /\ \A i \in 1..Len(gatheredData) :
          /\ gatheredData[i].Data.len <= 5012
          /\ gatheredData[i].Findings.kind = "returned" =>
                \/ gatheredData[i].Data.body = "error: failed to parse tool output"
                \/ \E r \in 1..NumResults :
                      gatheredData[i].Data = KeptText(jsonMarshal(r).text)

\* a result of exactly 5000 bytes and one of 5001 bytes were recorded, and
\* the answer of the LLM was longer than 5000 bytes
C15_Witness ==
    /\ response # NoResponse
    /\ lastAnswer.Content.len > 5000
    /\ response.Result.cut
    /\ \E i, j \in 1..Len(gatheredData) :
          /\ gatheredData[i].Data.len = 5000 /\ ~gatheredData[i].Data.cut
          /\ gatheredData[j].Data.len = 5012 /\ gatheredData[j].Data.cut

\* C16: when the LLM answers a Deciding request after k < MaxSteps steps
\* with content and no tool call, Analyze returns at once, without an error
\* and without another LLM, dispatcher or backend call: the result is that
\* content (cut at 5000 bytes), steps is k and the queries are those of the k
\* recorded steps.  With k = 0 the queries are empty; with k = 1 after a
\* call that went through, the data of the one step is the JSON of the
\* backend's result (cut at 5000 bytes).
C16_FinalResponse ==
    [][/\ pc # "Done"
       /\ (/\ pc = "Deciding" /\ steps < MaxSteps
           /\ llmLog' # llmLog
           /\ ~lastAnswer'.err /\ lastAnswer'.FunctionCall = NoCall) =>
             /\ pc' = "Done"
             /\ err' = NoError
             /\ response' # NoResponse
             /\ response'.Result = KeptText(lastAnswer'.Content)
             /\ response'.Steps = steps
             /\ response'.Queries =
                   [i \in 1..steps |->
                       [function |-> gatheredData[i].FunctionName,
                        arguments |-> gatheredData[i].Arguments]]
             /\ Len(llmLog') = Len(llmLog) + 1
             /\ guacCalls' = guacCalls
             /\ backendCalls' = backendCalls
             /\ steps = 0 =>
                   (response'.Steps = 0 /\ response'.Queries = <<>>)
             /\ (steps = 1 /\ backendCalls = 1 /\ guacCalls = 1) =>
                   /\ response'.Steps = 1
                   /\ \/ response'.GuacData[1].Data.body =
                            "error: failed to parse tool output"
                      \/ \E r \in 1..NumResults :
                            response'.GuacData[1].Data = KeptText(jsonMarshal(r).text)
      ]_vars

\* "hello" after one call the backend answered with a JSON of 5000 bytes
C16_Witness ==
    /\ pc = "Done" /\ response # NoResponse
    /\ response.Result = Text("hello", 5)
    /\ response.Steps = 1
    /\ Len(llmLog) = 2
    /\ backendCalls = 1
    /\ response.GuacData[1].Data = jsonMarshal(1).text

\* C17: the i-th StepData of gatheredData has step number i, and a step of
\* Analyze leaves gatheredData as it is or appends one StepData to it: what
\* was recorded is never changed, moved or removed.
C17_StepDataAppendOnly ==
    [][/\ \A i \in 1..Len(gatheredData') : gatheredData'[i].StepNumber = i
       /\ \/ gatheredData' = gatheredData
          \/ /\ Len(gatheredData') = Len(gatheredData) + 1
             /\ SubSeq(gatheredData', 1, Len(gatheredData)) = gatheredData
      ]_vars

\* five steps of the three kinds: returned, reused, failed
C17_Witness ==
    /\ Len(gatheredData) = MaxSteps
    /\ \A i \in 1..MaxSteps : gatheredData[i].StepNumber = i
    /\ \E i \in 1..MaxSteps : gatheredData[i].Findings.kind = "returned"
    /\ \E i \in 1..MaxSteps : gatheredData[i].Findings.kind = "reused"
    /\ gatheredData[MaxSteps].Findings = UnreachableFindings

\* C18: an answer to a Deciding request that carries a tool call together
\* with text content is executed as a tool call; it never ends Analyze as a
\* final response.
C18_ToolCallWins ==
    [][(/\ pc = "Deciding" /\ steps < MaxSteps
        /\ llmLog' # llmLog
        /\ ~lastAnswer'.err
        /\ lastAnswer'.FunctionCall # NoCall
        /\ lastAnswer'.Content.len > 0) =>
          /\ pc' = "Executing"
          /\ action'.Action = "function_call"
          /\ action'.Function = lastAnswer'.FunctionCall.Name
          /\ action'.Arguments = lastAnswer'.FunctionCall.Arguments
          /\ response' = NoResponse
          /\ err' = NoError
      ]_vars

\* the tool call of an answer that also has content is being executed
C18_Witness ==
    /\ pc = "Executing"
    /\ lastAnswer.FunctionCall # NoCall
    /\ lastAnswer.Content.len > 0
    /\ action.Function = lastAnswer.FunctionCall.Name
    /\ steps = 2

\* C19: with two requests in flight, a step of the goroutine of one request
\* changes nothing of the other request, and handing over between the
\* goroutines changes nothing of either: each request keeps its own steps,
\* gatheredData, query and response, which are those of a run of its own
\* (the step counter counts its own StepData, its LLM requests carry its own
\* query, its response carries its own steps and data).  The tool registry
\* is never written.
C19_RequestsDoNotInterfere ==
    /\ [][/\ \A r \in RequestIds :
                (r # current \/ current' # current) => requestState(r)' = requestState(r)
           /\ registry' = registry
          ]_vars
    /\ [](\A r \in RequestIds :
             LET g == requestState(r)
             IN  /\ g.steps = Len(g.gatheredData)
                 /\ g.currentQuery = ConcurrentQueries[r]
                 /\ \A i \in 1..Len(g.gatheredData) : g.gatheredData[i].StepNumber = i
                 /\ \A i \in 1..Len(g.llmLog) :
                       g.llmLog[i].kind = "decide" =>
                          (g.llmLog[i].user = ConcurrentQueries[r] /\ g.llmLog[i].step = i)
                 /\ g.response # NoResponse =>
                       (g.response.Steps = g.steps /\ g.response.GuacData = g.gatheredData))

\* both requests are in the middle of their runs, at different steps
C19_Witness ==
    /\ current = 2
    /\ pc = "CallingGUAC" /\ steps = 1 /\ attempt = 1
    /\ parked[1].pc = "Executing" /\ parked[1].steps = 3
    /\ llmLog[1].user # parked[1].llmLog[1].user

C21_RegistryBuildIsIdempotent ==
    probe.op = "catalog" =>
       \A i \in DOMAIN probe.builds, j \in DOMAIN probe.builds :
          /\ Len(probe.builds[i]) = Len(probe.builds[j])
          /\ \A k \in DOMAIN probe.builds[i] :
                /\ probe.builds[i][k].Name = probe.builds[j][k].Name
                /\ probe.builds[i][k].Description = probe.builds[j][k].Description
                /\ probe.builds[i][k].Parameters = probe.builds[j][k].Parameters

\* the registry was built twice from a catalog of two surfaced operations,
\* one of them with a required list
C21_Witness ==
    /\ probe.op = "catalog"
    /\ Len(probe.builds) = 2
    /\ Len(probe.builds[2]) = 3
    /\ \E k \in DOMAIN probe.builds[2] :
          /\ probe.builds[2][k].Name # "KnownQuery"
          /\ "required" \in DOMAIN probe.builds[2][k].Parameters

\* the catalog entries a descriptor is generated for, in catalog order
Surfaced(catalog) == SelectSeq(catalog, LAMBDA ao : ao.numIn >= 3)

\* the kinds of the scalar types
ScalarKinds ==
    {"String", "Bool", "Float32", "Float64", "Int", "Int8", "Int16", "Int32",
     "Int64", "Uint"}

\* the serialised fields of a struct type that are scalars, neither optional
\* nor a collection
ScalarFields(t) ==
    {t.Fields[i] : i \in {j \in DOMAIN t.Fields :
                             /\ t.Fields[j].PkgPath = ""
                             /\ jsonFieldName(t.Fields[j]) # <<>>
                             /\ t.Fields[j].Type.Kind \in ScalarKinds}}

\* the names a parameters schema lists as required
RequiredOf(schema) ==
    IF "required" \in DOMAIN schema
    THEN {schema.required[i] : i \in DOMAIN schema.required}
    ELSE {}

(***************************************************************************)
(* C22: every descriptor of a built registry has parameters of type        *)
(* "object", and its required list names every scalar field, neither       *)
(* optional nor a collection, of the input type of its operation (for      *)
(* KnownQuery: subjectType and subject).                                   *)
(***************************************************************************)
C22_DescriptorsAreObjects ==
    probe.op = "catalog" =>
       \A b \in DOMAIN probe.builds :
          LET defs == probe.builds[b]
              ops  == Surfaced(probe.catalog)
          IN  \A k \in DOMAIN defs :
                 /\ defs[k].Parameters.type = "object"
                 /\ k <= Len(ops) =>
                       \A f \in ScalarFields(ops[k].filter) :
                          jsonFieldName(f) \in RequiredOf(defs[k].Parameters)
                 /\ k > Len(ops) =>
                       /\ defs[k].Name = "KnownQuery"
                       /\ {subjectTypeName, subjectName} \subseteq RequiredOf(defs[k].Parameters)

\* a registry was built with the descriptor of an operation whose filter
\* has a plain string field next to an optional one
C22_Witness ==
    /\ probe.op = "catalog"
    /\ Len(probe.builds) >= 1
    /\ \E k \in DOMAIN Surfaced(probe.catalog) :
          LET t == Surfaced(probe.catalog)[k].filter
          IN  /\ ScalarFields(t) # {}
              /\ \E i \in DOMAIN t.Fields : t.Fields[i].Type.Kind = "Ptr"
              /\ probe.builds[1][k].Parameters.required = <<<<"i", "d">>>>

\* the fields of a struct type that get a property, in declaration order
SerialisedFields(t) ==
    SelectSeq(t.Fields, LAMBDA f : f.PkgPath = "" /\ jsonFieldName(f) # <<>>)

(***************************************************************************)
(* C23: in the schema synthesised for a struct, a field is listed in       *)
(* required if and only if its type is neither a pointer, nor a slice or   *)
(* an array, nor a map, nor an interface.                                  *)
(***************************************************************************)
C23_RequiredIffPlainField ==
    (probe.op = "typeToJSONSchema" /\ indirect(probe.t).Kind = "Struct") =>
       LET fs == SerialisedFields(indirect(probe.t))
       IN  \A i \in DOMAIN fs :
              jsonFieldName(fs[i]) \in RequiredOf(probe.result.schema)
              <=> fs[i].Type.Kind \notin {"Ptr", "Slice", "Array", "Map", "Interface"}

\* the kinds of the integer types, of any width
IntegerKinds == {"Int", "Int8", "Int16", "Int32", "Int64", "Uint"}

(***************************************************************************)
(* C24: typeToJSONSchema never returns an error, and the schema it gives   *)
(* for a type (behind any pointers) is by kind: struct - object with       *)
(* properties; string - string; integer of any width - integer; float -    *)
(* number; bool - boolean; slice or array - array with the items schema    *)
(* of the element; map - object with the additionalProperties schema of    *)
(* the element; interface - object; anything else - string.                *)
(***************************************************************************)
C24_SchemaByKind ==
    probe.op = "typeToJSONSchema" =>
       LET t == indirect(probe.t)
           s == probe.result.schema
       IN  /\ ~probe.result.err
           /\ t.Kind = "Struct" => s.type = "object" /\ "properties" \in DOMAIN s
           /\ t.Kind = "String" => s = [type |-> "string"]
           /\ t.Kind \in IntegerKinds => s = [type |-> "integer"]
           /\ t.Kind \in {"Float32", "Float64"} => s = [type |-> "number"]
           /\ t.Kind = "Bool" => s = [type |-> "boolean"]
           /\ t.Kind \in {"Slice", "Array"} =>
                 s = [type |-> "array", items |-> typeToJSONSchema(t.Elem).schema]
           /\ t.Kind = "Map" =>
                 s = [type |-> "object",
                      additionalProperties |-> typeToJSONSchema(t.Elem).schema]
           /\ t.Kind = "Interface" => s = [type |-> "object"]
           /\ t.Kind \notin {"Struct", "String", "Float32", "Float64", "Bool",
                             "Slice", "Array", "Map", "Interface"} \cup IntegerKinds =>
                 s = [type |-> "string"]

\* the name a json tag declares: the text before its options, possibly empty
DeclaredName(f) == SplitFirst(f.Tag, ",")

\* the serialisation names of the exported fields of a struct type that are
\* not marked "-": the declared name when there is one, otherwise the
\* lower-cased field name
SerialisationNames(t) ==
    {IF DeclaredName(t.Fields[i]) # <<>>
     THEN DeclaredName(t.Fields[i])
     ELSE ToLower(t.Fields[i].Name) :
        i \in {j \in DOMAIN t.Fields :
                  t.Fields[j].PkgPath = "" /\ t.Fields[j].Tag # <<"-">>}}

(***************************************************************************)
(* C25: the keys of the properties synthesised for a struct are exactly    *)
(* the serialisation names of its exported fields that are not marked "-"; *)
(* unexported fields and fields marked "-" add no key.                     *)
(***************************************************************************)
C25_PropertiesAreSerialisationNames ==
    (probe.op = "typeToJSONSchema" /\ indirect(probe.t).Kind = "Struct") =>
       DOMAIN probe.result.schema.properties = SerialisationNames(indirect(probe.t))

\* the names the descriptors of the catalog operations carry
CatalogNames == {generateDefinitionsFromGUAC[i] : i \in DOMAIN generateDefinitionsFromGUAC}

\* the id of the filter an argument text denotes: the value of its "id"
\* member, nil when it has none
FilterIdOf(data) ==
    LET v == jsonUnmarshal(data).val
        ids == {i \in DOMAIN v.m : v.m[i].k = "id"}
    IN  IF ids = {} THEN NilVal ELSE v.m[CHOOSE i \in ids : TRUE].v

(***************************************************************************)
(* C26: InvokeGUACOperation, given the name of a catalog descriptor and    *)
(* arguments that decode into the filter type, calls exactly one           *)
(* operation, the one of that name, with the decoded filter; it returns    *)
(* the response of that call as it is, and when the call fails it returns  *)
(* the error and no result.                                                *)
(***************************************************************************)
C26_DispatchInvokesTheOperation ==
    (/\ probe.op = "InvokeGUACOperation"
     /\ probe.fnName \in CatalogNames
     /\ unmarshalFilterFromJSON(probe.data)) =>
       /\ Len(probe.invoked) = 1
       /\ GetRuntimeFuncName(allowedOperations[probe.invoked[1].Operation]) = probe.fnName
       /\ probe.invoked[1].filter = [id |-> FilterIdOf(probe.data)]
       /\ IF probe.invoked[1].out.err
          THEN probe.result.isNil /\ probe.err # NoError
          ELSE /\ probe.result = [isNil |-> FALSE, value |-> probe.invoked[1].out.result]
               /\ probe.err = NoError

\* Packages was dispatched with a filter id and the backend answered
C26_Witness ==
    /\ probe.op = "InvokeGUACOperation"
    /\ probe.fnName = "Packages"
    /\ Len(probe.invoked) = 1
    /\ probe.invoked[1].filter.id = StrVal("b")
    /\ ~probe.invoked[1].out.err
    /\ probe.result.value = NumResults

\* the node ids of a visualizer URL: what stands after the prefix, without
\* the separating commas
PathIds(url) == SelectSeq(Tail(url), LAMBDA tok : tok # ",")

\* the position at which an id occurs first in a path
FirstIndex(path, id) == CHOOSE i \in DOMAIN path : path[i] = id /\ \A j \in 1..(i - 1) : path[j] # id

(***************************************************************************)
(* C27: in the visualizer URL of a Known-Query result every node id of the *)
(* path stands once, the ids are those of the path before deduplication    *)
(* and stand in the order of their first occurrence there; removing the    *)
(* duplicates once more changes nothing.                                   *)
(***************************************************************************)
C27_PathWithoutDuplicates ==
    (probe.op = "KnownQuery" /\ probe.return.result.present) =>
       LET path == PathIds(probe.return.result.VisualizerUrl)
           full == probe.return.fullPath
       IN  /\ \A i \in DOMAIN path, j \in DOMAIN path : i # j => path[i] # path[j]
           /\ {path[i] : i \in DOMAIN path} = {full[i] : i \in DOMAIN full}
           /\ \A i \in DOMAIN path, j \in DOMAIN path :
                 i < j => FirstIndex(full, path[i]) < FirstIndex(full, path[j])
           /\ removeDuplicateValuesFromPath(path) = path

\* a package result whose version neighbours repeat a name neighbour and
\* each other
C27_Witness ==
    /\ probe.op = "KnownQuery"
    /\ probe.input.SubjectType = "package"
    /\ probe.return.result.present
    /\ probe.return.fullPath = <<"n1", "ns1", "t1", "e1", "v1", "n1", "ns1", "t1", "e4", "e1">>
    /\ PathIds(probe.return.result.VisualizerUrl) = <<"n1", "ns1", "t1", "e1", "v1", "e4">>

(***************************************************************************)
(* C28: the path in the visualizer URL of a package result begins with the *)
(* chain of the queried node, version id, name id, namespace id, type id,  *)
(* and goes on with the neighbours' ids in the order they were found.      *)
(***************************************************************************)
C28_PackagePathBeginsWithChain ==
    (/\ probe.op = "KnownQuery"
     /\ probe.input.SubjectType = "package"
     /\ probe.return.result.present) =>
       LET path == PathIds(probe.return.result.VisualizerUrl)
           sections == probe.return.result.Sections
           chain == <<"v1", "n1", "ns1", "t1">>
       IN  path = removeDuplicateValuesFromPath(
                     chain \o sections[1].Edges \o sections[2].Edges)

\* a Neighbors query is among the backend calls of a Known-Query return
QueriedNeighbors(return) == \E i \in DOMAIN return.calls : return.calls[i].op = "Neighbors"

(***************************************************************************)
(* C29: for a package, a source and an artifact subject alike, when the    *)
(* subject lookup answers with no match or with more than one, Known-Query *)
(* returns an error and no result and has made no Neighbors query; a       *)
(* result is returned only after a lookup with exactly one match, and then *)
(* the neighbours have been queried.                                       *)
(***************************************************************************)
C29_ExactlyOneMatch ==
    (probe.op = "KnownQuery" /\ probe.return.calls # <<>>) =>
       LET return == probe.return
       IN  /\ (~return.lookup.err /\ return.lookup.matches # 1) =>
                 /\ return.err # NoError
                 /\ ~return.result.present
                 /\ ~QueriedNeighbors(return)
           /\ return.result.present =>
                 /\ ~return.lookup.err
                 /\ return.lookup.matches = 1
                 /\ return.err = NoError
                 /\ QueriedNeighbors(return)

\* the Artifacts lookup answered with two matches and Known-Query failed
\* after that one call
C29_Witness ==
    /\ probe.op = "KnownQuery"
    /\ probe.input.SubjectType = "artifact"
    /\ probe.return.lookup = [err |-> FALSE, matches |-> 2]
    /\ probe.return.err = <<"failed to locate artifact based on (algorithm:digest)">>
    /\ Len(probe.return.calls) = 1
    /\ probe.return.calls[1].op = "Artifacts"

\* C30: The HTTP boundary maps outcomes to status codes: a wrong method on
\* either route is answered 405; a malformed body posted to
\* /api/v1/analyze is answered 400 and the analyzer is not invoked for that
\* request; an error returned by Analyze is answered 500; a response
\* returned by Analyze, the GUAC-failure apology included, is answered 200.
C30_StatusCodes ==
    (probe.op = "request" /\ probe.status # 0) =>
        IF probe.path = "/api/v1/health"
        THEN probe.status = IF probe.method = "GET" THEN 200 ELSE 405
        ELSE IF probe.method # "POST"
        THEN probe.status = 405 /\ ~probe.analyzed /\ llmLog = <<>>
        ELSE IF probe.body.malformed
        THEN probe.status = 400 /\ ~probe.analyzed /\ llmLog = <<>>
        ELSE /\ probe.analyzed
             /\ pc = "Done"
             /\ err # NoError => probe.status = 500
             /\ (err = NoError /\ response # NoResponse) => probe.status = 200

\* the filter type the dispatcher decodes into: a struct of the generated
\* client whose id is a *string
IdFilterType ==
    [Kind |-> "Struct",
     Fields |-> <<[Name |-> <<"I", "d">>, PkgPath |-> "", Tag |-> <<"i", "d">>,
                   Type |-> [Kind |-> "Ptr", Elem |-> TString]]>>]

\* a decoded argument text is an instance of a descriptor's parameters: an
\* object that has every required property, its id of the declared type
ValidatesAgainst(schema, r) ==
    /\ r.ok
    /\ schema.type = "object" =>
          /\ r.val.t = "map"
          /\ \A i \in DOMAIN r.val.m :
                (r.val.m[i].k = "id" /\ <<"i", "d">> \in DOMAIN schema.properties
                     /\ schema.properties[<<"i", "d">>].type = "string")
                    => r.val.m[i].v.t = "str"
          /\ "required" \in DOMAIN schema =>
                \A j \in 1..Len(schema.required) :
                    schema.required[j] = <<"i", "d">>
                        => \E i \in DOMAIN r.val.m : r.val.m[i].k = "id"

\* C31: A tool call reaches the backend operation only after its arguments
\* were validated against the tool's declared schema: whenever the
\* operation was invoked, the argument text is an instance of the schema
\* the registry declares for the operation's filter type.
C31_ValidatedBeforeDispatch ==
    (probe.op = "InvokeGUACOperation" /\ probe.invoked # <<>>) =>
        ValidatesAgainst(typeToJSONSchema(IdFilterType).schema,
                         jsonUnmarshal(probe.data))

\* the (name, arguments) pairs of the steps recorded before Deciding call i
PriorPairs(i) ==
    [j \in 1..(llmLog[i].step - 1) |->
        [Function |-> gatheredData[j].FunctionName,
         Arguments |-> gatheredData[j].Arguments]]

C33_QueryIsNeverChanged ==
    [][/\ currentQuery' = currentQuery
       /\ originalQuery' = originalQuery
       /\ originalQuery \in Queries
       /\ Len(llmLog') > Len(llmLog) =>
             (llmLog'[Len(llmLog')].kind = "decide" =>
                  llmLog'[Len(llmLog')].user = originalQuery)
      ]_vars

\* a third Deciding call carrying the query, after a call that returned, a
\* failed attempt and a reused step
C33_Witness ==
    /\ Len(llmLog) = 3
    /\ llmLog[3].kind = "decide"
    /\ llmLog[3].user = originalQuery
    /\ currentQuery = originalQuery
    /\ gatheredData[1].Findings.kind = "returned"
    /\ gatheredData[2].Findings.kind = "reused"
    /\ lastErr # ""

\* the step recorded for a backend result json.Marshal cannot encode
ParseFailureStep ==
    LET data == Text("error: failed to parse tool output", 34)
    IN  StepData(steps + 1, action.Function, action.Arguments, data,
                 ReturnedFindings(steps + 1, action.Function, data))

\* the backend answers the pending call with such a result
BackendResultNotMarshalled ==
    /\ CallGUACOperation
    /\ backendCalls' = backendCalls + 1
    /\ gatheredData' = Append(gatheredData, ParseFailureStep)

\* C34: When the backend call succeeds but its result cannot be marshalled
\* to JSON text, the step is recorded as a successful step whose data is
\* the literal "error: failed to parse tool output": no error is raised,
\* no retry is made, steps is incremented and the loop returns to Deciding.
C34_MarshalFailureIsAStep ==
    /\ [](( /\ pc = "CallingGUAC"
            /\ attempt < maxGUACRetries
            /\ findOperationByName(action.Function)
            /\ unmarshalFilterFromJSON(action.Arguments))
          => ENABLED <<BackendResultNotMarshalled>>_vars)
    /\ [][(/\ pc = "CallingGUAC"
           /\ Len(gatheredData') = Len(gatheredData) + 1
           /\ gatheredData'[Len(gatheredData')].Data.body
                  = "error: failed to parse tool output")
          => /\ gatheredData' = Append(gatheredData, ParseFailureStep)
             /\ steps' = steps + 1
             /\ pc' = "Deciding"
             /\ err' = NoError
             /\ UNCHANGED <<attempt, lastErr, response>>
             /\ guacCalls' = guacCalls + 1
             /\ backendCalls' = backendCalls + 1
      ]_vars

\* the loop went on to another Deciding call after such a step
C34_Witness ==
    /\ Len(gatheredData) = 1
    /\ gatheredData[1].Data.body = "error: failed to parse tool output"
    /\ gatheredData[1].Findings.kind = "returned"
    /\ steps = 1
    /\ err = NoError
    /\ Len(llmLog) = 2
    /\ llmLog[2].kind = "decide"

\* the number of elements of a sequence that satisfy a test
CountOf(seq, Test(_)) == Len(SelectSeq(seq, Test))

\* what a Known-Query return shows of one edge kind in its last section
\* (the version section of a package, the one section of an artifact):
\* rows come from the direct neighbours (id direct) when there is one, with
\* no query filtered to the edge; else one artifact is resolved for each
\* occurrence neighbour and the rows come from the filtered queries made
\* after a resolution
RowsOfEdgeKind(return, nodeType, direct, edge) ==
    LET section == return.result.Sections[Len(return.result.Sections)]
        rows == SelectSeq(section.Rows, LAMBDA r : r.NodeType = nodeType)
        occurrences == CountOf(section.Edges, LAMBDA id : id = "e4")
        filtered == CountOf(return.calls,
                            LAMBDA c : c.op = "Neighbors" /\ c.usingOnly = <<edge>>)
    IN  IF \E i \in DOMAIN section.Edges : section.Edges[i] = direct
        THEN /\ [i \in DOMAIN rows |-> rows[i].NodeID]
                    = SelectSeq(section.Edges, LAMBDA id : id = direct)
             /\ filtered = 0
        ELSE /\ \A i \in DOMAIN rows : rows[i].NodeID = "e6"
             /\ Len(rows) <= filtered
             /\ filtered <= occurrences

\* C35: In Known-Query, hasSBOM (and hasSLSA) rows come from the subject's
\* direct neighbours whenever there is one, with no further backend query
\* for them; only when there is none does the tool resolve, for each
\* occurrence neighbour, the occurrence's artifact and query that
\* artifact's neighbours filtered to the SBOM (SLSA) edge; a failure of
\* that lookup drops the rows but never fails the Known-Query call.
C35_FallbackThroughOccurrence ==
    (/\ probe.op = "KnownQuery"
     /\ probe.input.SubjectType \in {"package", "artifact"}
     /\ probe.return.calls # <<>>) =>
       LET return == probe.return
           \* the first call is the lookup of the subject
           resolutions == CountOf(Tail(return.calls), LAMBDA c : c.op = "Artifacts")
           filteredAll == CountOf(return.calls,
                                  LAMBDA c : c.op = "Neighbors" /\ c.usingOnly # <<>>)
       IN  /\ resolutions + filteredAll > 0 =>
                 return.err = NoError /\ return.result.present
           /\ filteredAll <= resolutions
           /\ return.result.present =>
                 LET edges == return.result.Sections[Len(return.result.Sections)].Edges
                     occurrences == CountOf(edges, LAMBDA id : id = "e4")
                     missing == CountOf(<<"e2", "e3">>,
                                        LAMBDA d : \A i \in DOMAIN edges : edges[i] # d)
                 IN  /\ RowsOfEdgeKind(return, "hasSBOM", "e2", "ARTIFACT_HAS_SBOM")
                     /\ RowsOfEdgeKind(return, "hasSLSA", "e3", "ARTIFACT_HAS_SLSA")
                     /\ resolutions = occurrences * missing

\* a package version without SBOM neighbour and with one occurrence: the
\* artifact was resolved and its SBOM surfaced, while the SLSA rows were
\* dropped, and the call succeeded
C35_Witness ==
    /\ probe.op = "KnownQuery"
    /\ probe.input.SubjectType = "package"
    /\ probe.return.err = NoError
    /\ probe.return.result.Sections[2].Edges = <<"e4">>
    /\ \E i \in DOMAIN probe.return.result.Sections[2].Rows :
          probe.return.result.Sections[2].Rows[i]
              = [NodeType |-> "hasSBOM", NodeID |-> "e6",
                 ExtraInfo |-> "SBOM Download Location: "]
    /\ \A i \in DOMAIN probe.return.result.Sections[2].Rows :
          probe.return.result.Sections[2].Rows[i].NodeType # "hasSLSA"
    /\ Len(probe.return.calls) = 6

\* C36: For every successful response the number of LLM calls made during
\* the request equals metadata.steps + 1, on each of the three Done
\* paths: the final response chosen by the LLM, the forced summary and the
\* GUAC-failure explanation.
C36_LLMCallsAreStepsPlusOne ==
    (pc = "Done" /\ response # NoResponse) =>
        /\ err = NoError
        /\ Len(llmLog) = response.Steps + 1
        /\ llmLog[Len(llmLog)].kind = "summary" => response.Steps = MaxSteps
        /\ \A i \in 1..(Len(llmLog) - 1) : llmLog[i].kind = "decide" /\ llmLog[i].step = i

\* a GUAC-failure explanation after the third step failed: four LLM calls
C36_Witness ==
    /\ pc = "Done"
    /\ response # NoResponse
    /\ llmLog[Len(llmLog)].kind = "explain"
    /\ response.Steps = 3
    /\ Len(llmLog) = 4

\* C37: Every tool name listed in the descriptors handed to the LLM is
\* resolved by the dispatcher: a lookup by the name of any descriptor of
\* the registry, Known-Query included, succeeds, and the call is never
\* answered with a not-found error.
C37_AdvertisedToolsResolve ==
    (/\ probe.op = "InvokeGUACOperation"
     /\ \E i \in DOMAIN registry : registry[i] = probe.fnName) =>
        /\ findOperationByName(probe.fnName)
        /\ opEntry(probe.fnName) # 0
        /\ probe.err # <<"operation not found">>

\* an argument text json.Unmarshal cannot decode into a filter: not JSON,
\* a value that is neither an object nor null, or an id that is no string
Undecodable(args) ==
    LET r == jsonUnmarshal(args)
    IN  \/ ~r.ok
        \/ r.val.t \notin {"map", "nil"}
        \/ /\ r.val.t = "map"
           /\ \E i \in DOMAIN r.val.m :
                 r.val.m[i].k = "id" /\ r.val.m[i].v.t \notin {"str", "nil"}

\* C38: A tool call with a name that is not in the catalog, or with
\* arguments that cannot be decoded into the operation's input type, never
\* causes a backend operation to be invoked, on the first attempt or on
\* the retry.
C38_RejectedCallsStayLocal ==
    [][(/\ pc = "CallingGUAC"
        /\ \/ action.Function \notin CatalogNames
           \/ Undecodable(action.Arguments))
       => /\ backendCalls' = backendCalls
          /\ gatheredData' # gatheredData =>
                /\ pc' = "Explaining"
                /\ gatheredData'[Len(gatheredData')].Data = FailedData
      ]_vars

\* a call with arguments that are not JSON went through both attempts and
\* no backend operation was ever invoked in the request
C38_Witness ==
    /\ pc = "Explaining"
    /\ Undecodable(action.Arguments)
    /\ action.Function \in CatalogNames
    /\ stepGuacCalls = maxGUACRetries
    /\ guacCalls = maxGUACRetries
    /\ backendCalls = 0

\* the steps of a sequence that hold the failure record
FailureRecords(data) ==
    {i \in 1..Len(data) :
        data[i].Data.body = "Failed to reach GUAC after multiple attempts."}

\* C39: A StepData holding the failure record can only be the last element
\* of gatheredData, at most one exists per request, and it is present
\* exactly in the responses of the GUAC-failure explanation path; so a
\* deduplicated step never reuses the data of a failed step.
C39_FailureRecordIsLast ==
    /\ FailureRecords(gatheredData) \subseteq {Len(gatheredData)}
    /\ FailureRecords(gatheredData) # {} => pc \in {"Explaining", "Done"}
    /\ \A i \in 1..Len(gatheredData) :
          gatheredData[i].Findings.kind = "reused" => i \notin FailureRecords(gatheredData)
    /\ (pc = "Done" /\ response # NoResponse) =>
          /\ FailureRecords(response.GuacData) \subseteq {Len(response.GuacData)}
          /\ FailureRecords(response.GuacData) # {}
                <=> llmLog[Len(llmLog)].kind = "explain"

\* the explanation path answered after two steps that returned or were
\* reused and a third that failed
C39_Witness ==
    /\ pc = "Done"
    /\ response # NoResponse
    /\ llmLog[Len(llmLog)].kind = "explain"
    /\ Len(response.GuacData) = 3
    /\ FailureRecords(response.GuacData) = {3}
    /\ response.GuacData[2].Findings.kind = "reused"

\* C40: Known-Query rejects malformed input before touching the backend: a
\* subjectType other than "package", "source" or "artifact", and an
\* artifact subject that does not split on ":" into exactly two parts,
\* each return an error with zero backend calls; for a well-formed
\* artifact subject both algorithm and digest are lower-cased before the
\* lookup.
C40_MalformedInputIsRejected ==
    probe.op = "KnownQuery" =>
       LET input == probe.input
           return == probe.return
           colons == CountOf(input.Subject, LAMBDA c : c = ":")
           rejected == /\ return.err # NoError
                       /\ ~return.result.present
                       /\ return.calls = <<>>
       IN  /\ input.SubjectType \notin {"package", "source", "artifact"} => rejected
           /\ (input.SubjectType = "artifact" /\ colons # 1) => rejected
           /\ (input.SubjectType = "artifact" /\ colons = 1) =>
                 /\ return.calls # <<>>
                 /\ return.calls[1].op = "Artifacts"
                 /\ return.calls[1].filter.Algorithm \o <<":">>
                        \o return.calls[1].filter.Digest = ToLower(input.Subject)
                 /\ input.Subject = <<"S", "h", "a", ":", "A", "b">> =>
                       return.calls[1].filter
                           = [Algorithm |-> <<"s", "h", "a">>, Digest |-> <<"a", "b">>]

\* an artifact subject of three parts was turned down with no backend call
C40_Witness ==
    /\ probe.op = "KnownQuery"
    /\ probe.input = [SubjectType |-> "artifact", Subject |-> <<"a", ":", "b", ":", "c">>]
    /\ probe.return.err = <<"artifact must be in algorithm:digest form">>
    /\ ~probe.return.result.present
    /\ probe.return.calls = <<>>

====
